---- MODULE Spec2Model ----
(***************************************************************************)
(* Model of the soil-health crawler (get_raw_data.py): the dropdown        *)
(* accessors, the table extractor, the persistence sink and the four-level *)
(* traversal of scrape_soil_data, run against a small portal; and of the   *)
(* consolidator (consolidate_data.py): the walk over the raw directories,  *)
(* the merge of each district's tables and the cleaning of the final one.  *)
(*                                                                         *)
(* Values of <option value=...> are TLA+ strings (the code only compares   *)
(* them); labels, directory names and file names are sequences of          *)
(* one-character strings, because the code walks them character by         *)
(* character (strip, isalnum).                                             *)
(***************************************************************************)
EXTENDS Integers, Sequences, FiniteSets, TLC

(* ----------------------------- bounds --------------------------------- *)
\* Depth at which the interpreter refuses one more recursive retry.
RecursionLimit == 2
\* Largest number of data rows a rendered nutrient table holds.
MaxRows == 1

(* ----------------------------- text ----------------------------------- *)
Letters ==
    {"a","b","c","d","e","f","g","h","i","j","k","l","m","n","o","p","q","r",
     "s","t","u","v","w","x","y","z","A","B","C","D","E","F","G","H","I","J",
     "K","L","M","N","O","P","Q","R","S","T","U","V","W","X","Y","Z"}
Digits == {"0","1","2","3","4","5","6","7","8","9"}
Whitespace == {" "}

isalnum(c) == c \in Letters \cup Digits

RECURSIVE lstrip(_)
lstrip(s) == IF s # <<>> /\ Head(s) \in Whitespace THEN lstrip(Tail(s)) ELSE s

RECURSIVE rstrip(_)
rstrip(s) ==
    IF s # <<>> /\ s[Len(s)] \in Whitespace
    THEN rstrip(SubSeq(s, 1, Len(s) - 1)) ELSE s

strip(s) == rstrip(lstrip(s))

SelectText == <<"S","e","l","e","c","t">>
MacroKind == <<"m","a","c","r","o">>
MicroKind == <<"m","i","c","r","o">>
CsvSuffix == <<".","c","s","v">>
OUTPUT_RAW_DIR == <<"d","a","t","a","/","r","a","w">>

(* ----------------------------- the portal ----------------------------- *)
Levels == <<"ddlYear", "ddlState", "ddlDistrict", "ddlBlock">>
LevelIds == {Levels[i] : i \in 1..4}
LevelNo(id) == CHOOSE i \in 1..4 : Levels[i] = id

Opt(v, t) == [value |-> v, text |-> t]
Placeholder == Opt("0", SelectText)

YearControl ==
    << Placeholder, Opt("2021", <<"2","0","2","1">>),
       Opt("2022", <<"2","0","2","2">>) >>

\* The options the portal loads into a control, given the selections above it.
SiteOptions(id, sel) ==
    CASE id = "ddlYear" -> YearControl
      [] id = "ddlState" ->
            ( CASE sel["ddlYear"] = "2021" ->
                     << Placeholder, Opt("select", <<"A","l","l">>),
                        Opt("29", <<"K","A">>) >>
                [] sel["ddlYear"] = "2022" ->
                     << Placeholder, Opt("7", <<" ","S","e","l","e","c","t"," ">>),
                        Opt("30", <<"G","A">>) >>
                [] OTHER -> << Placeholder >> )
      [] id = "ddlDistrict" ->
            ( CASE sel["ddlYear"] = "2021" /\ sel["ddlState"] = "29" ->
                     << Placeholder, Opt("1", <<"D","1">>), Opt("2", <<" ","D","2">>) >>
                [] OTHER -> << Placeholder >> )
      [] id = "ddlBlock" ->
            ( CASE sel["ddlYear"] = "2021" /\ sel["ddlState"] = "29"
                     /\ sel["ddlDistrict"] = "1" ->
                     << Placeholder, Opt("11", <<"A","-","B">>),
                        Opt("12", <<"A"," ","B">>) >>
                [] OTHER -> << Placeholder >> )

FirstValue(opts) == IF opts = <<>> THEN "" ELSE opts[1].value

\* The page right after it has loaded: only the year control is populated.
InitialSelected == [id \in LevelIds |-> "0"]
InitialBrowser ==
    [selected |-> InitialSelected,
     options  |-> [id \in LevelIds |->
                      IF id = "ddlYear" THEN YearControl ELSE << Placeholder >>],
     waits    |-> {}]

OptionValues(opts) == {opts[i].value : i \in DOMAIN opts}

\* select.select_by_value(value) on a control that holds the value: the
\* choice is committed and the portal repopulates the controls below it.
Commit(b, id, v) ==
    LET n   == LevelNo(id)
        s1  == [x \in LevelIds |->
                   IF LevelNo(x) < n THEN b.selected[x]
                   ELSE IF x = id THEN v ELSE "0"]
        o1  == [x \in LevelIds |->
                   IF LevelNo(x) <= n THEN b.options[x]
                   ELSE IF LevelNo(x) = n + 1 THEN SiteOptions(x, s1)
                   ELSE << Placeholder >>]
        s2  == [x \in LevelIds |->
                   IF LevelNo(x) = n + 1 THEN FirstValue(o1[x]) ELSE s1[x]]
    IN  [selected |-> s2, options |-> o1, waits |-> {}]

(* ----------------------- get_dropdown_options ------------------------- *)
\* The filter of the list comprehension.
\* (faulty variant: the label test left out)
KeepOption_NoLabelTest(o) == o.value \notin {"0", "select"}
KeepOption(o) == o.value \notin {"0", "select"} /\ strip(o.text) # SelectText

RECURSIVE ListComprehension(_)
ListComprehension(opts) ==
    IF opts = <<>> THEN <<>>
    ELSE IF KeepOption(Head(opts))
         THEN << <<Head(opts).value, strip(Head(opts).text)>> >>
                 \o ListComprehension(Tail(opts))
         ELSE ListComprehension(Tail(opts))


\* One attempt of the try body, given what the driver does on this attempt:
\* the filtered list, [] after a logged not-found/timeout, one more recursive
\* call after a stale reference, RecursionError when the stack is used up.
get_dropdown_options(f, b, o) ==
    CASE o = "ok" ->
            [f EXCEPT !.phase = "returned", !.how = "ok",
                      !.opts = ListComprehension(b.options[f.element_id])]
      [] o = "Timeout" ->
            [f EXCEPT !.phase = "returned", !.how = "Timeout", !.opts = <<>>]
      [] o = "Stale" ->
            IF f.depth < RecursionLimit
            THEN [f EXCEPT !.depth = f.depth + 1]
            ELSE [f EXCEPT !.phase = "returned", !.how = "raise",
                           !.exc = "RecursionError"]
      [] OTHER ->
            [f EXCEPT !.phase = "returned", !.how = "raise", !.exc = o]

(* ----------------------- select_dropdown_option ----------------------- *)
Retry(f) ==
    IF f.depth < RecursionLimit
    THEN [f EXCEPT !.depth = f.depth + 1]
    ELSE [f EXCEPT !.phase = "returned", !.how = "raise", !.exc = "RecursionError"]

\* One attempt of the try body: wait until clickable, select_by_value, read
\* first_selected_option back for the log line.  Result: the frame and the page.
\* select_by_value clicks the option only when it is not selected yet, so
\* that selecting the value the control already holds commits nothing.
\* (faulty variant: the control is reset to its placeholder before the
\* value is looked up)
select_dropdown_option_ResetFirst(f, b, o) ==
    LET valid == f.value \in OptionValues(b.options[f.element_id])
        isSel == b.selected[f.element_id] = f.value
        done  == IF isSel THEN b ELSE Commit(b, f.element_id, f.value)
        n     == IF isSel THEN f.commits ELSE f.commits + 1
        reset == Commit(b, f.element_id, "0")
    IN  CASE o = "Timeout" ->
                [frame |-> [f EXCEPT !.phase = "returned", !.how = "Timeout",
                                     !.ok = FALSE],
                 browser |-> b]
          [] o = "StaleBefore" ->
                [frame |-> Retry(f), browser |-> b]
          [] o = "ok" /\ valid ->
                [frame |-> [f EXCEPT !.phase = "returned", !.how = "ok", !.ok = TRUE,
                                     !.commits = n],
                 browser |-> done]
          [] o = "StaleAfter" /\ valid ->
                [frame |-> [Retry(f) EXCEPT !.commits = n],
                 browser |-> done]
          [] o \in {"ok", "StaleAfter"} /\ ~valid ->
                [frame |-> [f EXCEPT !.phase = "returned", !.how = "NoSuchElement",
                                     !.ok = FALSE],
                 browser |-> reset]
          [] OTHER ->
                [frame |-> [f EXCEPT !.phase = "returned", !.how = "raise", !.exc = o],
                 browser |-> b]

select_dropdown_option(f, b, o) ==
    LET valid == f.value \in OptionValues(b.options[f.element_id])
        isSel == b.selected[f.element_id] = f.value
        done  == IF isSel THEN b ELSE Commit(b, f.element_id, f.value)
        n     == IF isSel THEN f.commits ELSE f.commits + 1
    IN  CASE o = "Timeout" ->
                [frame |-> [f EXCEPT !.phase = "returned", !.how = "Timeout",
                                     !.ok = FALSE],
                 browser |-> b]
          [] o = "StaleBefore" ->
                [frame |-> Retry(f), browser |-> b]
          [] o = "ok" /\ valid ->
                [frame |-> [f EXCEPT !.phase = "returned", !.how = "ok", !.ok = TRUE,
                                     !.commits = n],
                 browser |-> done]
          [] o = "StaleAfter" /\ valid ->
                [frame |-> [Retry(f) EXCEPT !.commits = n],
                 browser |-> done]
          [] o \in {"ok", "StaleAfter"} /\ ~valid ->
                \* select_by_value raises NoSuchElementException
                [frame |-> [f EXCEPT !.phase = "returned", !.how = "NoSuchElement",
                                     !.ok = FALSE],
                 browser |-> b]
          [] OTHER ->
                [frame |-> [f EXCEPT !.phase = "returned", !.how = "raise", !.exc = o],
                 browser |-> b]

ListOutcomes == {"ok", "Timeout", "Stale", "WebDriverException"}
SelectOutcomes == {"ok", "Timeout", "StaleBefore", "StaleAfter", "WebDriverException"}

(* --------------------------- get_table_data --------------------------- *)
NoneDF == [kind |-> "None", rows |-> 0, grid |-> ""]
DataFrame(n, id) == [kind |-> "DataFrame", rows |-> n, grid |-> id]

\* What the driver finds for a container id on one call.
Containers ==
    {[state |-> "hidden", rows |-> 0], [state |-> "stale", rows |-> 0],
     [state |-> "unparseable", rows |-> 0]}
    \cup {[state |-> "table", rows |-> n] : n \in 0..MaxRows}

\* (faulty variant: a parse error gives an empty table)
get_table_data_EmptyOnError(c, table_id) ==
    CASE c.state = "table" -> [df |-> DataFrame(c.rows, table_id), log |-> "none"]
      [] c.state = "hidden" -> [df |-> NoneDF, log |-> "error"]
      [] OTHER -> [df |-> DataFrame(0, table_id), log |-> "none"]

get_table_data(c, table_id) ==
    CASE c.state = "table" -> [df |-> DataFrame(c.rows, table_id), log |-> "none"]
      [] c.state = "hidden" -> [df |-> NoneDF, log |-> "error"]
      [] OTHER -> [df |-> NoneDF, log |-> "error"]

(* ------------------------------ save_data ----------------------------- *)
Safe(s) == [i \in DOMAIN s |-> IF isalnum(s[i]) THEN s[i] ELSE "_"]

FilePath(year, state, district, block, nutrient_type) ==
    << OUTPUT_RAW_DIR, year, Safe(state), Safe(district),
       Safe(block) \o <<"_">> \o nutrient_type \o CsvSuffix >>

SaveOutcomes == {"ok", "to_csv_error", "makedirs_error"}

\* "if df is not None and not df.empty"
\* (faulty variant: the emptiness test left out)
SaveWanted_NotNone(df) == df.kind # "None"
SaveWanted(df) == df.kind # "None" /\ df.rows > 0

SaveCall(df, year, state, district, block, nutrient_type) ==
    [year |-> year, state |-> state, district |-> district, block |-> block,
     kind |-> nutrient_type, rows |-> df.rows, grid |-> df.grid]

\* The store after save_data: df.to_csv writes (or overwrites) the file at
\* the path; a failing makedirs or to_csv leaves the store as it was.
save_data(st, df, year, state, district, block, nutrient_type, o) ==
    LET p == FilePath(year, state, district, block, nutrient_type)
        n == IF p \in DOMAIN st THEN st[p].writes ELSE 0
    IN  IF o = "ok"
        THEN (p :> [rows |-> df.rows, writes |-> n + 1,
                    from |-> <<year, state, district, block, nutrient_type>>]) @@ st
        ELSE st

(* ------------------------------ state --------------------------------- *)
VARIABLES
    pc,                \* position in scrape_soil_data
    driver,            \* "none", "open", "closed"
    exitStatus,        \* process exit status once it is set
    raised,            \* the exception that left scrape_soil_data, if any
    fatalAt,           \* the step whose exception reached the outer handler
    year_options, state_options, district_options, block_options,
    yi, si, di, bi,    \* positions of the four for loops
    browser,           \* the page: selection and options of each control
    frame,             \* the accessor call in progress, or its result
    extracted,         \* the result of the last direct call of get_table_data
    container,         \* what the driver found on that call
    log,               \* level of the last log line
    store,             \* the files under OUTPUT_RAW_DIR
    saveCalls,         \* the calls of save_data made so far
    yearsTried,        \* year positions whose loop body was entered
    blocksTried,       \* block positions entered while in the block loop
    blocksFailed,      \* of those, the ones where some step failed
    blockLog,          \* the steps taken for the current block
    lastSelected,      \* loop positions of the last select_dropdown_option call
    csv,               \* what pd.read_csv finds in each file of RAW_DATA_DIR
    tree,              \* the files of each district directory of RAW_DATA_DIR
    todo,              \* district directories the walk has not reached yet
    all_data_frames,   \* the merged table of each district directory visited
    final_df,          \* the consolidated table
    consExc            \* the exception that left consolidate_data, if any

lists == <<year_options, state_options, district_options, block_options>>
idx   == <<yi, si, di, bi>>
proc  == <<driver, exitStatus, fatalAt, raised>>
cons  == <<csv, tree, todo, all_data_frames, final_df, consExc>>
dfs   == <<extracted, container, cons>>
sink  == <<store, saveCalls>>
hist  == <<yearsTried, blocksTried, blocksFailed, blockLog, lastSelected>>
vars  == <<pc, proc, lists, idx, browser, frame, dfs, log, sink, hist>>

\* Nothing of the consolidator has run.
NoConsolidation ==
    /\ csv = <<>> /\ tree = <<>> /\ todo = {}
    /\ all_data_frames = <<>>
    /\ final_df = [columns |-> <<>>, rows |-> <<>>]
    /\ consExc = "none"

IdleFrame ==
    [fn |-> "none", element_id |-> "ddlYear", value |-> "", depth |-> 0,
     phase |-> "idle", exc |-> "none", how |-> "none", ok |-> FALSE, opts |-> <<>>,
     commits |-> 0, before |-> InitialBrowser]

Call(fn, id, v) ==
    [fn |-> fn, element_id |-> id, value |-> v, depth |-> 0,
     phase |-> "run", exc |-> "none", how |-> "none", ok |-> FALSE, opts |-> <<>>,
     commits |-> 0, before |-> browser]

Returned == frame.phase = "returned"

Init ==
    /\ pc = "start"
    /\ driver = "none" /\ exitStatus = 0 /\ fatalAt = "none" /\ raised = "none"
    /\ year_options = <<>> /\ state_options = <<>>
    /\ district_options = <<>> /\ block_options = <<>>
    /\ yi = 0 /\ si = 0 /\ di = 0 /\ bi = 0
    /\ browser = InitialBrowser
    /\ frame = IdleFrame
    /\ extracted = [df |-> NoneDF, log |-> "none"]
    /\ container = [state |-> "none", rows |-> 0]
    /\ log = "none"
    /\ store = <<>> /\ saveCalls = <<>>
    /\ yearsTried = {} /\ blocksTried = {} /\ blocksFailed = {}
    /\ lastSelected = <<0, 0, 0, 0>>
    /\ blockLog = <<>>
    /\ NoConsolidation

(* ----------------------- the accessor calls run ----------------------- *)
GetAttempt ==
    /\ frame.fn = "get_dropdown_options" /\ frame.phase = "run"
    /\ \E o \in ListOutcomes :
          /\ frame' = get_dropdown_options(frame, browser, o)
          /\ log' = CASE o = "ok" -> log
                      [] o = "Timeout" -> "error"
                      [] o = "Stale" -> "warning"
                      [] OTHER -> log
    /\ UNCHANGED <<pc, proc, lists, idx, browser, dfs, sink, hist>>

SelectAttempt ==
    /\ frame.fn = "select_dropdown_option" /\ frame.phase = "run"
    /\ \E o \in SelectOutcomes :
          LET r == select_dropdown_option(frame, browser, o)
          IN  /\ frame' = r.frame
              /\ browser' = r.browser
              /\ log' = CASE r.frame.phase = "run" -> "warning"
                          [] r.frame.exc = "RecursionError" -> "warning"
                          [] r.frame.exc # "none" -> log
                          [] r.frame.ok -> "info"
                          [] OTHER -> "error"
    /\ UNCHANGED <<pc, proc, lists, idx, dfs, sink, hist>>

(* -------------------------- scrape_soil_data ------------------------- *)
\* Which try statement catches an exception raised at a step: the one
\* around the body of the block loop, or the outermost one.
BlockSteps == {"select_block", "macro", "micro", "reset"}
\* (faulty variant: no try around the block body)
Catcher_OuterOnly(at) == "outer"
Catcher(at) == IF at \in BlockSteps THEN "block" ELSE "outer"

\* The except clauses of the macro try: both fall through to the micro part.
\* (faulty variant: only the not-found/timeout clause, so that any other
\* exception leaves the block body)
MacroExcept_TimeoutOnly(exc) == IF exc = "Timeout" THEN "micro" ELSE "block_loop"
MacroExcept(exc) == "micro"

\* The except clauses of the micro try: both fall through to the tab reset.
\* (faulty variant: an exception of the micro part leaves the block body)
MicroExcept_SkipReset(exc) == "block_loop"
MicroExcept(exc) == "reset"

\* except Exception as e: the exception is logged and goes no further.
\* (faulty variant: the exception is raised again)
OuterExcept_Reraise(exc) == exc
OuterExcept(exc) == "none"

\* except Exception ... critical; then the finally clause.
Abort(at) ==
    /\ pc' = "finally"
    /\ fatalAt' = at
    /\ raised' = OuterExcept(at)
    /\ log' = "critical"
    /\ frame' = IdleFrame
    /\ UNCHANGED <<driver, exitStatus, lists, idx, browser, dfs, sink, hist>>

WaitOutcomes == {"ok", "Timeout"}
ClickOutcomes == {"ok", "Timeout", "WebDriverException"}

\* What the traversal waits for between a selection that returned True and
\* the next read: time.sleep(2) after the year; WebDriverWait for the
\* dependent control and time.sleep(1.5) after the state and the district;
\* time.sleep(1.5) after the block. browser.waits holds the waits taken
\* since the last commit.
\* (faulty variant: the traversal reads at once)
SettleAfter_None(id) == {}
SettleAfter(id) ==
    CASE id = "ddlYear" -> {"sleep"}
      [] id = "ddlState" -> {"ready", "sleep"}
      [] id = "ddlDistrict" -> {"ready", "sleep"}
      [] id = "ddlBlock" -> {"sleep"}

\* "if not select_dropdown_option(...): continue": the body of a loop goes
\* on for an option only when its selection returned True.
\* (faulty variant: the result of the selection is ignored)
Proceed_Always(ok) == TRUE
Proceed(ok) == ok

\* "if not ..._options": where control goes when a listing is empty; the
\* year loop has nothing to go back to and the function returns.
\* (faulty variant: any empty listing ends the run)
EmptyListing_EndsCrawl(id) == "finally"
EmptyListing(id) ==
    CASE id = "ddlYear" -> "finally"
      [] id = "ddlState" -> "year_loop"
      [] id = "ddlDistrict" -> "state_loop"
      [] id = "ddlBlock" -> "district_loop"

YearText == year_options[yi][2]
StateText == state_options[si][2]
DistrictText == district_options[di][2]
\* (faulty variant: the label of the first block of the listing)
BlockText_First == block_options[1][2]
BlockText == block_options[bi][2]

\* setup_driver(): the session, or exit(1).
Setup ==
    /\ pc = "start"
    /\ \E o \in {"ok", "fail"} :
          IF o = "ok"
          THEN /\ driver' = "open" /\ pc' = "navigate" /\ log' = "info"
               /\ UNCHANGED <<exitStatus, raised>>
          ELSE /\ pc' = "exited" /\ exitStatus' = 1 /\ log' = "critical"
               /\ raised' = "SystemExit"
               /\ UNCHANGED driver
    /\ UNCHANGED <<fatalAt, lists, idx, browser, frame, dfs, sink, hist>>

\* driver.get, the wait for ddlYear, then the call that lists the years.
Navigate ==
    /\ pc = "navigate"
    /\ \E o \in {"ok", "WebDriverException", "Timeout"} :
          IF o = "ok"
          THEN /\ pc' = "years_listed"
               /\ frame' = Call("get_dropdown_options", "ddlYear", "")
               /\ log' = "info"
               /\ UNCHANGED <<proc, lists, idx, browser, dfs, sink, hist>>
          ELSE Abort("navigate")

YearsListed ==
    /\ pc = "years_listed" /\ Returned
    /\ IF frame.exc # "none" THEN Abort("list_years")
       ELSE IF frame.opts = <<>>
       THEN /\ pc' = EmptyListing("ddlYear") /\ log' = "error" /\ frame' = IdleFrame
            /\ UNCHANGED <<proc, lists, idx, browser, dfs, sink, hist>>
       ELSE /\ year_options' = frame.opts /\ yi' = 1
            /\ pc' = "year_loop" /\ frame' = IdleFrame
            /\ UNCHANGED <<proc, state_options, district_options, block_options,
                           si, di, bi, browser, dfs, log, sink, hist>>

\* for year_value, year_text in year_options: select the year.
YearLoop ==
    /\ pc = "year_loop"
    /\ IF yi > Len(year_options)
       THEN /\ pc' = "finally"
            /\ UNCHANGED <<frame, log, hist>>
       ELSE /\ pc' = "year_selected"
            /\ frame' = Call("select_dropdown_option", "ddlYear", year_options[yi][1])
            /\ yearsTried' = yearsTried \cup {yi}
            /\ lastSelected' = <<yi, 0, 0, 0>>
            /\ log' = "info"
            /\ UNCHANGED <<blocksTried, blocksFailed, blockLog>>
    /\ UNCHANGED <<proc, lists, idx, browser, dfs, sink>>

YearSelected ==
    /\ pc = "year_selected" /\ Returned
    /\ IF frame.exc # "none" THEN Abort("select_year")
       ELSE IF ~Proceed(frame.ok)
       THEN /\ pc' = "year_loop" /\ yi' = yi + 1 /\ frame' = IdleFrame
            /\ UNCHANGED <<proc, lists, si, di, bi, browser, dfs, log, sink, hist>>
       ELSE /\ pc' = "states_listed"
            /\ browser' = [browser EXCEPT !.waits = SettleAfter("ddlYear")]
            /\ frame' = Call("get_dropdown_options", "ddlState", "")
            /\ UNCHANGED <<proc, lists, idx, dfs, log, sink, hist>>

StatesListed ==
    /\ pc = "states_listed" /\ Returned
    /\ IF frame.exc # "none" THEN Abort("list_states")
       ELSE IF frame.opts = <<>>
       THEN /\ pc' = EmptyListing("ddlState") /\ yi' = yi + 1 /\ frame' = IdleFrame
            /\ log' = "warning"
            /\ UNCHANGED <<proc, lists, si, di, bi, browser, dfs, sink, hist>>
       ELSE /\ state_options' = frame.opts /\ si' = 1
            /\ pc' = "state_loop" /\ frame' = IdleFrame
            /\ UNCHANGED <<proc, year_options, district_options, block_options,
                           yi, di, bi, browser, dfs, log, sink, hist>>

StateLoop ==
    /\ pc = "state_loop"
    /\ IF si > Len(state_options)
       THEN /\ pc' = "year_loop" /\ yi' = yi + 1
            /\ UNCHANGED <<frame, log, lastSelected>>
       ELSE /\ pc' = "state_selected"
            /\ frame' = Call("select_dropdown_option", "ddlState", state_options[si][1])
            /\ lastSelected' = <<yi, si, 0, 0>>
            /\ log' = "info"
            /\ UNCHANGED yi
    /\ UNCHANGED <<proc, lists, si, di, bi, browser, dfs, sink,
                   yearsTried, blocksTried, blocksFailed, blockLog>>

\* After the selection: WebDriverWait for ddlDistrict, then list the districts.
StateSelected ==
    /\ pc = "state_selected" /\ Returned
    /\ IF frame.exc # "none" THEN Abort("select_state")
       ELSE IF ~Proceed(frame.ok)
       THEN /\ pc' = "state_loop" /\ si' = si + 1 /\ frame' = IdleFrame
            /\ UNCHANGED <<proc, lists, yi, di, bi, browser, dfs, log, sink, hist>>
       ELSE \E w \in WaitOutcomes :
               IF w = "ok"
               THEN /\ pc' = "districts_listed"
                    /\ browser' = [browser EXCEPT !.waits = SettleAfter("ddlState")]
                    /\ frame' = Call("get_dropdown_options", "ddlDistrict", "")
                    /\ UNCHANGED <<proc, lists, idx, dfs, log, sink, hist>>
               ELSE Abort("wait_district")

DistrictsListed ==
    /\ pc = "districts_listed" /\ Returned
    /\ IF frame.exc # "none" THEN Abort("list_districts")
       ELSE IF frame.opts = <<>>
       THEN /\ pc' = EmptyListing("ddlDistrict") /\ si' = si + 1 /\ frame' = IdleFrame
            /\ log' = "warning"
            /\ UNCHANGED <<proc, lists, yi, di, bi, browser, dfs, sink, hist>>
       ELSE /\ district_options' = frame.opts /\ di' = 1
            /\ pc' = "district_loop" /\ frame' = IdleFrame
            /\ UNCHANGED <<proc, year_options, state_options, block_options,
                           yi, si, bi, browser, dfs, log, sink, hist>>

DistrictLoop ==
    /\ pc = "district_loop"
    /\ IF di > Len(district_options)
       THEN /\ pc' = "state_loop" /\ si' = si + 1
            /\ UNCHANGED <<frame, log, lastSelected>>
       ELSE /\ pc' = "district_selected"
            /\ frame' = Call("select_dropdown_option", "ddlDistrict",
                             district_options[di][1])
            /\ lastSelected' = <<yi, si, di, 0>>
            /\ log' = "info"
            /\ UNCHANGED si
    /\ UNCHANGED <<proc, lists, yi, di, bi, browser, dfs, sink,
                   yearsTried, blocksTried, blocksFailed, blockLog>>

\* After the selection: WebDriverWait for ddlBlock, then list the blocks.
DistrictSelected ==
    /\ pc = "district_selected" /\ Returned
    /\ IF frame.exc # "none" THEN Abort("select_district")
       ELSE IF ~Proceed(frame.ok)
       THEN /\ pc' = "district_loop" /\ di' = di + 1 /\ frame' = IdleFrame
            /\ UNCHANGED <<proc, lists, yi, si, bi, browser, dfs, log, sink, hist>>
       ELSE \E w \in WaitOutcomes :
               IF w = "ok"
               THEN /\ pc' = "blocks_listed"
                    /\ browser' = [browser EXCEPT !.waits = SettleAfter("ddlDistrict")]
                    /\ frame' = Call("get_dropdown_options", "ddlBlock", "")
                    /\ UNCHANGED <<proc, lists, idx, dfs, log, sink, hist>>
               ELSE Abort("wait_block")

BlocksListed ==
    /\ pc = "blocks_listed" /\ Returned
    /\ IF frame.exc # "none" THEN Abort("list_blocks")
       ELSE IF frame.opts = <<>>
       THEN /\ pc' = EmptyListing("ddlBlock") /\ di' = di + 1 /\ frame' = IdleFrame
            /\ log' = "warning"
            /\ UNCHANGED <<proc, lists, yi, si, bi, browser, dfs, sink, hist>>
       ELSE /\ block_options' = frame.opts /\ bi' = 1
            /\ blocksTried' = {} /\ blocksFailed' = {} /\ blockLog' = <<>>
            /\ pc' = "block_loop" /\ frame' = IdleFrame
            /\ UNCHANGED <<proc, year_options, state_options, district_options,
                           yi, si, di, browser, dfs, log, sink, yearsTried, lastSelected>>

\* for block_value, block_text in block_options: select the block.
BlockLoop ==
    /\ pc = "block_loop"
    /\ IF bi > Len(block_options)
       THEN /\ pc' = "district_loop" /\ di' = di + 1
            /\ blocksTried' = {} /\ blocksFailed' = {} /\ blockLog' = <<>>
            /\ UNCHANGED <<frame, log, yearsTried, lastSelected>>
       ELSE /\ pc' = "block_selected"
            /\ frame' = Call("select_dropdown_option", "ddlBlock", block_options[bi][1])
            /\ blocksTried' = blocksTried \cup {bi}
            /\ blockLog' = <<>>
            /\ lastSelected' = <<yi, si, di, bi>>
            /\ log' = "info"
            /\ UNCHANGED <<di, yearsTried, blocksFailed>>
    /\ UNCHANGED <<proc, lists, yi, si, bi, browser, dfs, sink>>

Entry(step, reached, exc) == [step |-> step, reached |-> reached, exc |-> exc]

\* An exception raised at a step of the block body: logged by the handler
\* of the block's try, and the loop goes on with the next block.
BlockRaise(at, exc) ==
    IF Catcher(at) = "block"
    THEN /\ pc' = "block_loop" /\ bi' = bi + 1
         /\ log' = "error" /\ frame' = IdleFrame
         /\ blocksFailed' = blocksFailed \cup {bi}
         /\ blockLog' = Append(blockLog, Entry(at, "raise", exc))
         /\ UNCHANGED <<proc, lists, yi, si, di, browser, dfs, sink,
                        yearsTried, lastSelected, blocksTried>>
    ELSE Abort(at)

BlockSelected ==
    /\ pc = "block_selected" /\ Returned
    /\ IF frame.exc # "none" THEN BlockRaise("select_block", frame.exc)
       ELSE IF ~Proceed(frame.ok)
       THEN /\ pc' = "block_loop" /\ bi' = bi + 1 /\ frame' = IdleFrame
            /\ blocksFailed' = blocksFailed \cup {bi}
            /\ blockLog' = Append(blockLog, Entry("select_block", "select", "False"))
            /\ UNCHANGED <<proc, lists, yi, si, di, browser, dfs, log, sink,
                           yearsTried, lastSelected, blocksTried>>
       ELSE /\ pc' = "macro" /\ frame' = IdleFrame
            /\ browser' = [browser EXCEPT !.waits = SettleAfter("ddlBlock")]
            /\ blockLog' = Append(blockLog, Entry("select_block", "select", "none"))
            /\ UNCHANGED <<proc, lists, idx, dfs, log, sink,
                           yearsTried, lastSelected, blocksTried, blocksFailed>>

\* The macro try: click "Table View", extract gridMacroNutrient, save it.
MacroStep ==
    /\ pc = "macro"
    /\ \E view \in ClickOutcomes, c \in Containers, so \in SaveOutcomes :
          LET macro_df == get_table_data(c, "gridMacroNutrient").df
              wanted  == view = "ok" /\ SaveWanted(macro_df)
              exc     == IF view # "ok" THEN view
                         ELSE IF wanted /\ so = "makedirs_error" THEN "OSError"
                         ELSE "none"
              reached == IF view # "ok" THEN "view"
                         ELSE IF wanted THEN "save" ELSE "extract"
              next    == IF exc = "none" THEN "micro" ELSE MacroExcept(exc)
              failed  == exc # "none" \/ (view = "ok" /\ macro_df.kind = "None")
                         \/ (wanted /\ so # "ok")
          IN  /\ TRUE
              /\ IF wanted
                 THEN /\ saveCalls' = Append(saveCalls,
                           SaveCall(macro_df, YearText, StateText, DistrictText,
                                    BlockText, MacroKind))
                      /\ store' = save_data(store, macro_df, YearText, StateText,
                                            DistrictText, BlockText, MacroKind, so)
                 ELSE UNCHANGED sink
              /\ log' = CASE exc = "Timeout" -> "warning"
                          [] exc # "none" -> "error"
                          [] wanted /\ so = "ok" -> "info"
                          [] wanted -> "error"
                          [] OTHER -> "warning"
              /\ pc' = next
              /\ bi' = IF next = "block_loop" THEN bi + 1 ELSE bi
              /\ blocksFailed' = IF failed THEN blocksFailed \cup {bi} ELSE blocksFailed
              /\ blockLog' = Append(blockLog, Entry("macro", reached, exc))
    /\ UNCHANGED <<proc, lists, yi, si, di, browser, frame, dfs,
                   yearsTried, lastSelected, blocksTried>>

\* The micro try: click the micro tab, click "Table View", extract
\* gridMicroNutrient, save it.
MicroStep ==
    /\ pc = "micro"
    /\ \E tab \in ClickOutcomes, view \in ClickOutcomes,
          c \in Containers, so \in SaveOutcomes :
          LET micro_df == get_table_data(c, "gridMicroNutrient").df
              clicked == tab = "ok" /\ view = "ok"
              wanted  == clicked /\ SaveWanted(micro_df)
              exc     == IF tab # "ok" THEN tab
                         ELSE IF view # "ok" THEN view
                         ELSE IF wanted /\ so = "makedirs_error" THEN "OSError"
                         ELSE "none"
              reached == IF tab # "ok" THEN "tab"
                         ELSE IF view # "ok" THEN "view"
                         ELSE IF wanted THEN "save" ELSE "extract"
              next    == IF exc = "none" THEN "reset" ELSE MicroExcept(exc)
              failed  == exc # "none" \/ (clicked /\ micro_df.kind = "None")
                         \/ (wanted /\ so # "ok")
          IN  /\ TRUE
              /\ IF wanted
                 THEN /\ saveCalls' = Append(saveCalls,
                           SaveCall(micro_df, YearText, StateText, DistrictText,
                                    BlockText, MicroKind))
                      /\ store' = save_data(store, micro_df, YearText, StateText,
                                            DistrictText, BlockText, MicroKind, so)
                 ELSE UNCHANGED sink
              /\ log' = CASE exc = "Timeout" -> "warning"
                          [] exc # "none" -> "error"
                          [] wanted /\ so = "ok" -> "info"
                          [] wanted -> "error"
                          [] OTHER -> "warning"
              /\ pc' = next
              /\ bi' = IF next = "block_loop" THEN bi + 1 ELSE bi
              /\ blocksFailed' = IF failed THEN blocksFailed \cup {bi} ELSE blocksFailed
              /\ blockLog' = Append(blockLog, Entry("micro", reached, exc))
    /\ UNCHANGED <<proc, lists, yi, si, di, browser, frame, dfs,
                   yearsTried, lastSelected, blocksTried>>

\* (faulty variant: the loop does not move on to the next block)
ResetStep_SameBlock ==
    /\ pc = "reset"
    /\ pc' = "block_loop"
    /\ blockLog' = Append(blockLog, Entry("reset", "tab", "none"))
    /\ UNCHANGED <<proc, lists, idx, browser, frame, dfs, log, sink,
                   yearsTried, lastSelected, blocksTried, blocksFailed>>

\* Back to the macro tab, whatever happened; then the next block.
ResetStep ==
    /\ pc = "reset"
    /\ \E tab \in ClickOutcomes :
          /\ log' = IF tab = "ok" THEN log ELSE "debug"
          /\ blocksFailed' = IF tab = "ok" THEN blocksFailed
                             ELSE blocksFailed \cup {bi}
          /\ blockLog' = Append(blockLog,
                                Entry("reset", "tab", IF tab = "ok" THEN "none" ELSE tab))
    /\ pc' = "block_loop" /\ bi' = bi + 1
    /\ UNCHANGED <<proc, lists, yi, si, di, browser, frame, dfs, sink,
                   yearsTried, lastSelected, blocksTried>>

\* finally: driver.quit()
\* (faulty variant: the function returns without driver.quit())
Finally_NoQuit ==
    /\ pc = "finally"
    /\ pc' = "done"
    /\ log' = "info"
    /\ exitStatus' = IF raised = "none" THEN exitStatus ELSE 1
    /\ UNCHANGED <<driver, fatalAt, raised, lists, idx, browser, frame, dfs,
                   sink, hist>>
Finally ==
    /\ pc = "finally"
    /\ driver' = "closed"
    /\ pc' = "done"
    /\ log' = "info"
    /\ exitStatus' = IF raised = "none" THEN exitStatus ELSE 1
    /\ UNCHANGED <<fatalAt, raised, lists, idx, browser, frame, dfs, sink, hist>>

Next ==
    \/ Setup \/ Navigate \/ YearsListed
    \/ YearLoop \/ YearSelected \/ StatesListed
    \/ StateLoop \/ StateSelected \/ DistrictsListed
    \/ DistrictLoop \/ DistrictSelected \/ BlocksListed
    \/ BlockLoop \/ BlockSelected \/ MacroStep \/ MicroStep \/ ResetStep
    \/ Finally
    \/ GetAttempt \/ SelectAttempt

Spec == Init /\ [][Next]_vars

(* ------------- the accessors and the extractor on their own ----------- *)
\* Any call of the three helpers, on any page this portal can show.
GridIds == {"gridMacroNutrient", "gridMicroNutrient"}
CallValues == {"0", "2021", "2022", "29", "30", "1", "2", "11", "99"}

InitAccessor ==
    /\ pc = "harness"
    /\ driver = "open" /\ exitStatus = 0 /\ fatalAt = "none" /\ raised = "none"
    /\ year_options = <<>> /\ state_options = <<>>
    /\ district_options = <<>> /\ block_options = <<>>
    /\ yi = 0 /\ si = 0 /\ di = 0 /\ bi = 0
    /\ browser = InitialBrowser
    /\ frame = IdleFrame
    /\ extracted = [df |-> NoneDF, log |-> "none"]
    /\ container = [state |-> "none", rows |-> 0]
    /\ log = "none"
    /\ store = <<>> /\ saveCalls = <<>>
    /\ yearsTried = {} /\ blocksTried = {} /\ blocksFailed = {}
    /\ lastSelected = <<0, 0, 0, 0>>
    /\ blockLog = <<>>
    /\ NoConsolidation

CallList ==
    /\ pc = "harness" /\ frame.phase # "run"
    /\ \E id \in LevelIds : frame' = Call("get_dropdown_options", id, "")
    /\ UNCHANGED <<pc, proc, lists, idx, browser, dfs, log, sink, hist>>

CallSelect ==
    /\ pc = "harness" /\ frame.phase # "run"
    /\ \E id \in LevelIds, v \in CallValues :
          frame' = Call("select_dropdown_option", id, v)
    /\ UNCHANGED <<pc, proc, lists, idx, browser, dfs, log, sink, hist>>

CallExtract ==
    /\ pc = "harness" /\ frame.phase # "run"
    /\ \E c \in Containers, id \in GridIds :
          LET r == get_table_data(c, id)
          IN  /\ extracted' = r
              /\ container' = c
              /\ log' = r.log
    /\ UNCHANGED <<pc, proc, lists, idx, browser, frame, cons, sink, hist>>

NextAccessor ==
    CallList \/ CallSelect \/ CallExtract \/ GetAttempt \/ SelectAttempt

SpecAccessor == InitAccessor /\ [][NextAccessor]_vars

(* =========================== consolidate_data ========================= *)
(* Tables are records of a sequence of column names and a sequence of      *)
(* rows; a row is a sequence of cells, one per column.  Column names and   *)
(* cells are sequences of one-character strings: a cell of digits is a     *)
(* number, the empty cell is the missing value, any other cell is text.    *)

UpperCase ==
    <<"A","B","C","D","E","F","G","H","I","J","K","L","M","N","O","P","Q","R",
      "S","T","U","V","W","X","Y","Z">>
LowerCase ==
    <<"a","b","c","d","e","f","g","h","i","j","k","l","m","n","o","p","q","r",
      "s","t","u","v","w","x","y","z">>
DecimalDigits == <<"0","1","2","3","4","5","6","7","8","9">>

Range(f) == {f[x] : x \in DOMAIN f}

\* str.lower()
lower(s) ==
    [i \in DOMAIN s |->
        IF \E k \in DOMAIN UpperCase : UpperCase[k] = s[i]
        THEN LowerCase[CHOOSE k \in DOMAIN UpperCase : UpperCase[k] = s[i]]
        ELSE s[i]]

startswith(s, prefix) ==
    Len(s) >= Len(prefix) /\ SubSeq(s, 1, Len(prefix)) = prefix

\* str.endswith(suffix)
endswith(s, suffix) ==
    Len(s) >= Len(suffix) /\ SubSeq(s, Len(s) - Len(suffix) + 1, Len(s)) = suffix

\* "sub in s"
contains(s, sub) ==
    \E i \in 1..(Len(s) - Len(sub) + 1) : SubSeq(s, i, i + Len(sub) - 1) = sub

\* str.replace(old, new), old not empty: every occurrence, left to right.
RECURSIVE replace(_, _, _)
replace(s, old, new) ==
    IF s = <<>> THEN <<>>
    ELSE IF startswith(s, old)
         THEN new \o replace(SubSeq(s, Len(old) + 1, Len(s)), old, new)
         ELSE <<Head(s)>> \o replace(Tail(s), old, new)

\* str(count) of a natural number
RECURSIVE str(_)
str(n) ==
    IF n < 10 THEN <<DecimalDigits[n + 1]>>
    ELSE str(n \div 10) \o <<DecimalDigits[(n % 10) + 1]>>

RECURSIVE Flatten(_)
Flatten(ss) == IF ss = <<>> THEN <<>> ELSE Head(ss) \o Flatten(Tail(ss))

Max(a, b) == IF a >= b THEN a ELSE b

RAW_DATA_DIR == <<"d","a","t","a","/","r","a","w">>
MacroSuffix == <<"_","m","a","c","r","o",".","c","s","v">>
MicroSuffix == <<"_","m","i","c","r","o",".","c","s","v">>
MergeKey == <<"V","i","l","l","a","g","e","_","G","r","a","m","P","a","n","c","h","a","y","a","t","h">>
VillageWord == <<"v","i","l","l","a","g","e">>
GramWord == <<"g","r","a","m">>
YearColumn == <<"Y","e","a","r">>
StateColumn == <<"S","t","a","t","e">>
DistrictColumn == <<"D","i","s","t","r","i","c","t">>
BlockColumn == <<"B","l","o","c","k">>
Unknown == <<"U","n","k","n","o","w","n">>
Zero == <<"0">>
NaN == <<>>
NoFile == <<>>

\* pd.DataFrame()
EmptyDataFrame == [columns |-> <<>>, rows |-> <<>>]
\* df.empty
empty(df) == df.columns = <<>> \/ df.rows = <<>>

IsNumber(cell) == cell # <<>> /\ \A i \in DOMAIN cell : cell[i] \in Digits

\* The type pandas gives a column: numeric when every cell is a number or
\* missing, object otherwise.
dtype(df, j) ==
    IF \A r \in DOMAIN df.rows : df.rows[r][j] = NaN \/ IsNumber(df.rows[r][j])
    THEN "float64" ELSE "object"

NaNs(n) == [i \in 1..n |-> NaN]
Positions(columns, name) == {i \in DOMAIN columns : columns[i] = name}
Position(columns, name) == CHOOSE i \in DOMAIN columns : columns[i] = name
HasDuplicates(columns) ==
    \E i, j \in DOMAIN columns : i # j /\ columns[i] = columns[j]
Without(s, j) == SubSeq(s, 1, j - 1) \o SubSeq(s, j + 1, Len(s))

\* 'village' in col.lower() or 'gram' in col.lower()
IsKeyColumn(col) == contains(lower(col), VillageWord) \/ contains(lower(col), GramWord)
\* the list comprehension of matching columns, as positions
KeyColumns(df) == {i \in DOMAIN df.columns : IsKeyColumn(df.columns[i])}
FirstKeyColumn(df) == CHOOSE i \in KeyColumns(df) : \A j \in KeyColumns(df) : i <= j

\* df.rename(columns={old: new}, inplace=True): every column of that name.
rename(df, old, new) ==
    [df EXCEPT !.columns = [i \in DOMAIN df.columns |->
                               IF df.columns[i] = old THEN new ELSE df.columns[i]]]

\* pd.concat([left, right], axis=1) of two tables with default row labels:
\* rows are paired by position, the shorter table padded with missing cells.
concat_columns(left, right) ==
    LET n == Max(Len(left.rows), Len(right.rows))
        half(df, i) == IF i <= Len(df.rows) THEN df.rows[i] ELSE NaNs(Len(df.columns))
    IN  [columns |-> left.columns \o right.columns,
         rows |-> [i \in 1..n |-> half(left, i) \o half(right, i)]]

\* Whether pd.merge(left, right, on=key, how='outer') raises: the key names
\* one column on each side, and the two key columns have matching types.
merge_raises(left, right, key) ==
    \/ Cardinality(Positions(left.columns, key)) # 1
    \/ Cardinality(Positions(right.columns, key)) # 1
    \/ dtype(left, Position(left.columns, key)) # dtype(right, Position(right.columns, key))

\* pd.merge(left, right, on=key, how='outer', suffixes=(ls, rs)): the left
\* columns, then the right columns without the key; a name the two sides
\* share outside the key gets the side's suffix.  Every left row is paired
\* with each right row of the same key (or with missing cells), then come
\* the right rows whose key no left row has.
merge_outer(left, right, key, ls, rs) ==
    LET kl == Position(left.columns, key)
        kr == Position(right.columns, key)
        shared == (Range(left.columns) \cap Range(right.columns)) \ {key}
        lcols == [i \in DOMAIN left.columns |->
                    IF left.columns[i] \in shared THEN left.columns[i] \o ls
                    ELSE left.columns[i]]
        rcols == [i \in DOMAIN right.columns |->
                    IF right.columns[i] \in shared THEN right.columns[i] \o rs
                    ELSE right.columns[i]]
        ridx == [j \in DOMAIN right.rows |-> j]
        matches(i) ==
            LET same(j) == right.rows[j][kr] = left.rows[i][kl]
            IN  SelectSeq(ridx, same)
        forLeft(i) ==
            IF matches(i) = <<>>
            THEN << left.rows[i] \o NaNs(Len(right.columns) - 1) >>
            ELSE [k \in DOMAIN matches(i) |->
                     left.rows[i] \o Without(right.rows[matches(i)[k]], kr)]
        unmatched(j) == \A i \in DOMAIN left.rows : left.rows[i][kl] # right.rows[j][kr]
        rightOnly == SelectSeq(ridx, unmatched)
        forRight(j) ==
            [c \in DOMAIN left.columns |-> IF c = kl THEN right.rows[j][kr] ELSE NaN]
               \o Without(right.rows[j], kr)
    IN  [columns |-> lcols \o Without(rcols, kr),
         rows |-> Flatten([i \in DOMAIN left.rows |-> forLeft(i)])
                     \o [k \in DOMAIN rightOnly |-> forRight(rightOnly[k])]]

\* df[name] = value: the columns of that name are overwritten, or a new
\* last column is added.
assign(df, name, value) ==
    IF Positions(df.columns, name) = {}
    THEN [columns |-> Append(df.columns, name),
          rows |-> [r \in DOMAIN df.rows |-> Append(df.rows[r], value)]]
    ELSE [df EXCEPT !.rows = [r \in DOMAIN df.rows |->
                                 [c \in DOMAIN df.columns |->
                                     IF df.columns[c] = name THEN value
                                     ELSE df.rows[r][c]]]]

(* ------------------------- one district directory --------------------- *)
\* (faulty variant: any .csv file is taken for a macro file)
IsMacroFile_AnyCsv(file_name) == endswith(file_name, CsvSuffix)
IsMacroFile(file_name) == endswith(file_name, MacroSuffix)
IsMicroFile(file_name) == endswith(file_name, MicroSuffix)

\* file_name.replace("_macro.csv", "").replace("_", " ")
BlockNameOf(file_name, suffix) == replace(replace(file_name, suffix, <<>>), <<"_">>, <<" ">>)

\* state_dir.replace("_", " "), district_dir.replace("_", " ")
NameOf(dir_name) == replace(dir_name, <<"_">>, <<" ">>)

NoFiles == [macro_file |-> NoFile, micro_file |-> NoFile, current_block_name |-> <<>>]

\* for file_name in os.listdir(district_path): the three variables after
\* the files of the listing from position i on.
RECURSIVE ScanFiles(_, _, _, _)
ScanFiles(district_path, listing, i, found) ==
    IF i > Len(listing) THEN found
    ELSE LET file_name == listing[i]
             next == IF IsMacroFile(file_name)
                     THEN [found EXCEPT
                             !.macro_file = Append(district_path, file_name),
                             !.current_block_name = BlockNameOf(file_name, MacroSuffix)]
                     ELSE IF IsMicroFile(file_name)
                     THEN [found EXCEPT
                             !.micro_file = Append(district_path, file_name),
                             !.current_block_name = BlockNameOf(file_name, MicroSuffix)]
                     ELSE found
         IN  ScanFiles(district_path, listing, i + 1, next)

\* try: pd.read_csv(path) except Exception: pd.DataFrame()
\* (faulty variant: whatever could be read of a damaged file is used)
read_csv_or_empty_Partial(files, path) == files[path].table
read_csv_or_empty(files, path) ==
    IF files[path].readable THEN files[path].table ELSE EmptyDataFrame

Load(files, path) == IF path = NoFile THEN EmptyDataFrame ELSE read_csv_or_empty(files, path)

\* The side-by-side fallback.
\* (faulty variant: only the rows both tables have)
SideBySide_Inner(left, right) ==
    [columns |-> left.columns \o right.columns,
     rows |-> [i \in 1..(IF Len(left.rows) <= Len(right.rows)
                         THEN Len(left.rows) ELSE Len(right.rows)) |->
                  left.rows[i] \o right.rows[i]]]
SideBySide(left, right) == concat_columns(left, right)

\* The join on the common key.
\* (faulty variant: an inner join, only the keys both tables have)
JoinOnKey_Inner(left, right) ==
    LET m == merge_outer(left, right, MergeKey, <<"_","m","a","c","r","o">>, <<"_","m","i","c","r","o">>)
        kl == Position(left.columns, MergeKey)
        kr == Position(right.columns, MergeKey)
        both(row) == /\ \E i \in DOMAIN left.rows : left.rows[i][kl] = row[kl]
                     /\ \E j \in DOMAIN right.rows : right.rows[j][kr] = row[kl]
    IN  [m EXCEPT !.rows = SelectSeq(m.rows, both)]
JoinOnKey(left, right) ==
    merge_outer(left, right, MergeKey, <<"_","m","a","c","r","o">>, <<"_","m","i","c","r","o">>)

\* The merge policy: the table of the block and the branch that made it.
\* (faulty variant: two non-empty tables are never joined)
Merge_NoJoin(df_macro, df_micro) ==
    IF ~empty(df_macro) /\ ~empty(df_micro)
    THEN [df |-> SideBySide(df_macro, df_micro), how |-> "side_by_side"]
    ELSE IF ~empty(df_macro) THEN [df |-> df_macro, how |-> "macro"]
    ELSE IF ~empty(df_micro) THEN [df |-> df_micro, how |-> "micro"]
    ELSE [df |-> EmptyDataFrame, how |-> "empty"]
Merge(df_macro, df_micro) ==
    IF ~empty(df_macro) /\ ~empty(df_micro)
    THEN IF KeyColumns(df_macro) # {} /\ KeyColumns(df_micro) # {}
         THEN LET left == rename(df_macro, df_macro.columns[FirstKeyColumn(df_macro)], MergeKey)
                  right == rename(df_micro, df_micro.columns[FirstKeyColumn(df_micro)], MergeKey)
              IN  IF merge_raises(left, right, MergeKey)
                  THEN [df |-> SideBySide(left, right), how |-> "join_failed"]
                  ELSE [df |-> JoinOnKey(left, right), how |-> "join"]
         ELSE [df |-> SideBySide(df_macro, df_micro), how |-> "side_by_side"]
    ELSE IF ~empty(df_macro) THEN [df |-> df_macro, how |-> "macro"]
    ELSE IF ~empty(df_micro) THEN [df |-> df_micro, how |-> "micro"]
    ELSE [df |-> EmptyDataFrame, how |-> "empty"]

\* merged_df['Year'] = ..., ['State'], ['District'], ['Block']
WithIdentifiers(df, district_path, current_block_name) ==
    assign(assign(assign(assign(df,
        YearColumn, district_path[2]),
        StateColumn, NameOf(district_path[3])),
        DistrictColumn, NameOf(district_path[4])),
        BlockColumn, strip(current_block_name))

\* The body of the district loop for one listing of the directory: the
\* frames it appends to all_data_frames (none or one).  Besides the table,
\* a frame keeps the files it was read from and the merged table before the
\* identifier columns were set.
District(files, district_path, listing) ==
    LET found == ScanFiles(district_path, listing, 1, NoFiles)
        df_macro == Load(files, found.macro_file)
        df_micro == Load(files, found.micro_file)
        m == Merge(df_macro, df_micro)
    IN  IF found.macro_file = NoFile /\ found.micro_file = NoFile THEN <<>>
        ELSE IF empty(m.df) THEN <<>>
        ELSE << [df |-> WithIdentifiers(m.df, district_path, found.current_block_name),
                 merged |-> m.df, how |-> m.how,
                 macro_file |-> found.macro_file, micro_file |-> found.micro_file,
                 district_path |-> district_path] >>

(* --------------------------- the final table -------------------------- *)
Frames == [i \in DOMAIN all_data_frames |-> all_data_frames[i].df]

RECURSIVE UnionColumns(_, _)
UnionColumns(frames, seen) ==
    IF frames = <<>> THEN seen
    ELSE LET fresh(c) == c \notin Range(seen)
         IN  UnionColumns(Tail(frames), seen \o SelectSeq(Head(frames).columns, fresh))

\* pd.concat(frames, ignore_index=True) cannot align a table that repeats a
\* column name with a table of other columns.
concat_raises(frames) ==
    \E i, j \in DOMAIN frames :
        HasDuplicates(frames[i].columns) /\ frames[j].columns # frames[i].columns

\* pd.concat(frames, ignore_index=True): the rows of all tables under the
\* union of their columns, a column a table lacks being missing in its rows.
concat(frames) ==
    IF \A i, j \in DOMAIN frames : frames[i].columns = frames[j].columns
    THEN [columns |-> frames[1].columns,
          rows |-> Flatten([i \in DOMAIN frames |-> frames[i].rows])]
    ELSE LET cols == UnionColumns(frames, <<>>)
             widen(df, row) ==
                 [c \in DOMAIN cols |->
                     IF cols[c] \in Range(df.columns)
                     THEN row[Position(df.columns, cols[c])] ELSE NaN]
         IN  [columns |-> cols,
              rows |-> Flatten([i \in DOMAIN frames |->
                          [r \in DOMAIN frames[i].rows |->
                              widen(frames[i], frames[i].rows[r])]])]

\* Step 1: fillna(0) for the numeric columns, fillna('Unknown') for the others.
FillValue(df, c) == IF dtype(df, c) \in {"float64", "int64"} THEN Zero ELSE Unknown
fillna(df) ==
    [df EXCEPT !.rows = [r \in DOMAIN df.rows |->
                           [c \in DOMAIN df.columns |->
                               IF df.rows[r][c] = NaN THEN FillValue(df, c)
                               ELSE df.rows[r][c]]]]

\* Step 2: the new name of one column before disambiguation.
Standardize(col) ==
    LET a == lower(strip(col))
        b == replace(replace(a, <<" ">>, <<"_">>), <<"-">>, <<"_">>)
        c == replace(replace(replace(b, <<".">>, <<>>), <<"%">>, <<"p","e","r","c","e","n","t">>),
                     <<"/">>, <<"_","p","e","r","_">>)
        kept(e) == isalnum(e) \/ e = "_"
    IN  SelectSeq(c, kept)

\* The while loop: the first of new_col_1, new_col_2, ... not yet a value.
RECURSIVE FirstFree(_, _, _)
FirstFree(new_col, count, values) ==
    LET temp_new_col == new_col \o <<"_">> \o str(count)
    IN  IF temp_new_col \in values THEN FirstFree(new_col, count + 1, values)
        ELSE temp_new_col

\* The dictionary new_columns after the columns from position i on; it is
\* keyed by the old column name.
RECURSIVE NewColumns(_, _, _)
NewColumns(columns, i, new_columns) ==
    IF i > Len(columns) THEN new_columns
    ELSE LET col == columns[i]
             values == Range(new_columns)
             std == Standardize(col)
             new_col == IF std \in values THEN FirstFree(std, 1, values) ELSE std
         IN  NewColumns(columns, i + 1, (col :> new_col) @@ new_columns)

\* final_df.rename(columns=new_columns, inplace=True)
standardize_columns(df) ==
    LET new_columns == NewColumns(df.columns, 1, <<>>)
    IN  [df EXCEPT !.columns = [i \in DOMAIN df.columns |-> new_columns[df.columns[i]]]]

id_cols ==
    { <<"y","e","a","r">>, <<"s","t","a","t","e">>, <<"d","i","s","t","r","i","c","t">>, <<"b","l","o","c","k">>,
      <<"v","i","l","l","a","g","e","_","g","r","a","m","p","a","n","c","h","a","y","a","t","h">>, <<"v","i","l","l","a","g","e">>, <<"g","r","a","m","_","p","a","n","c","h","a","y","a","t","h">> }

\* Step 3: pd.to_numeric(errors='coerce') then fillna(0), outside id_cols.
\* (faulty variant: what cannot be converted is left as it is)
to_numeric_Keep(cell) == cell
to_numeric(cell) == IF IsNumber(cell) THEN cell ELSE Zero

coerce(df) ==
    [df EXCEPT !.rows = [r \in DOMAIN df.rows |->
                           [c \in DOMAIN df.columns |->
                               IF df.columns[c] \in id_cols THEN df.rows[r][c]
                               ELSE to_numeric(df.rows[r][c])]]]

(* ------------------------- the raw data at hand ----------------------- *)
\* What the crawler may have left under RAW_DATA_DIR for one year and one
\* state: two blocks of district D1 and one of district D2, each file
\* absent, damaged, or holding one of a few tables; district D2 may also
\* be an empty directory or hold a file that is not a nutrient table.
Year2021 == <<"2","0","2","1">>
StateKA == <<"K","A">>
DistrictD1 == <<"D","1">>
DistrictD2 == <<"D","2">>
BlockAB == <<"A","-","B">>
BlockC == <<"C">>
BlockEF == <<"E"," ","F">>
ForeignName == <<"x",".","c","s","v">>

MacroKeyed == [columns |-> <<<<"V","i","l","l","a","g","e">>, <<"p","H">>>>,
     rows |-> <<<<<<"a">>, <<"7">>>>, <<<<"b">>, <<>>>>>>]
MacroPlain == [columns |-> <<<<"p","H">>, <<"N"," ","%">>>>,
     rows |-> <<<<<<"7">>, <<"l","o","w">>>>>>]
MacroCodes == [columns |-> <<<<"V","i","l","l","a","g","e">>, <<"N"," ","%">>>>,
     rows |-> <<<<<<"1">>, <<"5">>>>>>]
MacroRepeatedKey == [columns |-> <<<<"V","i","l","l","a","g","e">>, <<"p","H">>>>,
     rows |-> <<<<<<"b">>, <<"7">>>>, <<<<"b">>, <<"8">>>>>>]
MicroKeyed == [columns |-> <<<<"G","r","a","m"," ","P","a","n","c","h","a","y","a","t","h">>, <<"P","H">>>>,
     rows |-> <<<<<<"b">>, <<"1">>>>, <<<<"c">>, <<"x">>>>>>]
MicroPlain == [columns |-> <<<<"p","H">>, <<"Z","i","n","c">>>>,
     rows |-> <<<<<<"5">>, <<"2">>>>, <<<<"6">>, <<"3">>>>>>]

MacroPool == <<MacroKeyed, MacroPlain, MacroCodes, MacroRepeatedKey>>
MicroPool == <<MicroKeyed, MicroPlain>>

Slots ==
    << [district |-> DistrictD1, block |-> BlockAB, kind |-> MacroKind,
        grid |-> "gridMacroNutrient", pool |-> MacroPool, damage |-> TRUE],
       [district |-> DistrictD1, block |-> BlockAB, kind |-> MicroKind,
        grid |-> "gridMicroNutrient", pool |-> MicroPool, damage |-> TRUE],
       [district |-> DistrictD1, block |-> BlockC, kind |-> MacroKind,
        grid |-> "gridMacroNutrient", pool |-> <<MacroPlain, MacroKeyed>>,
        damage |-> FALSE],
       [district |-> DistrictD1, block |-> BlockC, kind |-> MicroKind,
        grid |-> "gridMicroNutrient", pool |-> <<MicroPlain>>, damage |-> FALSE],
       [district |-> DistrictD2, block |-> BlockEF, kind |-> MacroKind,
        grid |-> "gridMacroNutrient", pool |-> <<MacroPlain>>, damage |-> FALSE] >>

\* A choice gives each slot 0 (no file), the number of a table of its pool,
\* or one more than the pool's size (a file pd.read_csv cannot load).
Extras == {"none", "empty", "foreign"}
InputChoices ==
    {ch \in [DOMAIN Slots -> 0..(Len(MacroPool) + 1)] :
        \A i \in DOMAIN Slots :
            ch[i] <= Len(Slots[i].pool) + (IF Slots[i].damage THEN 1 ELSE 0)}

FileOf(slot, c) ==
    IF c > Len(slot.pool) THEN [table |-> slot.pool[1], readable |-> FALSE]
    ELSE [table |-> slot.pool[c], readable |-> TRUE]

DistrictPath(district) == <<RAW_DATA_DIR, Year2021, Safe(StateKA), Safe(district)>>
SlotPath(slot) == FilePath(Year2021, StateKA, slot.district, slot.block, slot.kind)

\* The crawler's store after save_data has written the chosen files.
RECURSIVE CrawledStore(_, _, _)
CrawledStore(ch, i, st) ==
    IF i > Len(Slots) THEN st
    ELSE CrawledStore(ch, i + 1,
            IF ch[i] = 0 THEN st
            ELSE save_data(st, DataFrame(Len(FileOf(Slots[i], ch[i]).table.rows),
                                         Slots[i].grid),
                           Year2021, StateKA, Slots[i].district, Slots[i].block,
                           Slots[i].kind, "ok"))

ForeignPath == Append(DistrictPath(DistrictD2), ForeignName)

\* What pd.read_csv finds at each path.
RawFiles(ch, extra) ==
    LET saved == {i \in DOMAIN Slots : ch[i] # 0}
        paths == {SlotPath(Slots[i]) : i \in saved}
                    \cup (IF extra = "foreign" THEN {ForeignPath} ELSE {})
        slotAt(p) == CHOOSE i \in saved : SlotPath(Slots[i]) = p
    IN  [p \in paths |->
            IF p = ForeignPath THEN [table |-> MicroPlain, readable |-> TRUE]
            ELSE FileOf(Slots[slotAt(p)], ch[slotAt(p)])]

\* os.listdir of each district directory that exists.
RawTree(ch, extra) ==
    LET files == DOMAIN RawFiles(ch, extra)
        dirs == {SubSeq(p, 1, 4) : p \in files}
                   \cup (IF extra = "empty" THEN {DistrictPath(DistrictD2)} ELSE {})
    IN  [d \in dirs |-> {p[5] : p \in {q \in files : SubSeq(q, 1, 4) = d}}]

\* The orders in which os.listdir may return the entries of a directory.
Orders(entries) ==
    {f \in [1..Cardinality(entries) -> entries] :
        \A i, j \in 1..Cardinality(entries) : i # j => f[i] # f[j]}

InitConsolidate ==
    /\ pc = "walk"
    /\ driver = "none" /\ exitStatus = 0 /\ fatalAt = "none" /\ raised = "none"
    /\ year_options = <<>> /\ state_options = <<>>
    /\ district_options = <<>> /\ block_options = <<>>
    /\ yi = 0 /\ si = 0 /\ di = 0 /\ bi = 0
    /\ browser = InitialBrowser
    /\ frame = IdleFrame
    /\ extracted = [df |-> NoneDF, log |-> "none"]
    /\ container = [state |-> "none", rows |-> 0]
    /\ log = "none"
    /\ saveCalls = <<>>
    /\ yearsTried = {} /\ blocksTried = {} /\ blocksFailed = {}
    /\ lastSelected = <<0, 0, 0, 0>>
    /\ blockLog = <<>>
    /\ \E ch \in InputChoices, extra \in Extras :
          /\ store = CrawledStore(ch, 1, <<>>)
          /\ csv = RawFiles(ch, extra)
          /\ tree = RawTree(ch, extra)
          /\ todo = DOMAIN RawTree(ch, extra)
    /\ all_data_frames = <<>>
    /\ final_df = EmptyDataFrame
    /\ consExc = "none"

\* One pass of the loop over the district directories (the year and state
\* loops around it only enumerate them), for one order of its listing.
VisitDistrict ==
    /\ pc = "walk" /\ todo # {}
    /\ \E district_path \in todo : \E listing \in Orders(tree[district_path]) :
          /\ all_data_frames' =
                 all_data_frames \o District(csv, district_path, listing)
          /\ todo' = todo \ {district_path}
    /\ UNCHANGED <<pc, proc, lists, idx, browser, frame, extracted, container,
                   csv, tree, final_df, consExc, log, sink, hist>>

\* "if not all_data_frames: return", else pd.concat of the frames.
Concatenate ==
    /\ pc = "walk" /\ todo = {}
    /\ IF all_data_frames = <<>>
       THEN pc' = "cons_done" /\ log' = "warning" /\ UNCHANGED <<final_df, consExc>>
       ELSE IF concat_raises(Frames)
       THEN /\ pc' = "cons_done" /\ consExc' = "InvalidIndexError"
            /\ UNCHANGED <<final_df, log>>
       ELSE /\ pc' = "clean" /\ final_df' = concat(Frames) /\ log' = "info"
            /\ UNCHANGED consExc
    /\ UNCHANGED <<proc, lists, idx, browser, frame, extracted, container,
                   csv, tree, todo, all_data_frames, sink, hist>>

\* Missing values, column names, numeric columns.  final_df[col] of a
\* repeated column name is a table, which has no dtype: AttributeError.
Clean ==
    /\ pc = "clean"
    /\ IF HasDuplicates(final_df.columns)
       THEN pc' = "cons_done" /\ consExc' = "AttributeError" /\ UNCHANGED final_df
       ELSE /\ pc' = "write"
            /\ final_df' = coerce(standardize_columns(fillna(final_df)))
            /\ UNCHANGED consExc
    /\ UNCHANGED <<proc, lists, idx, browser, frame, extracted, container,
                   csv, tree, todo, all_data_frames, log, sink, hist>>

\* final_df.to_csv(...), a failure being logged as critical.
WriteOutput ==
    /\ pc = "write"
    /\ \E o \in {"ok", "error"} : log' = IF o = "ok" THEN "saved" ELSE "critical"
    /\ pc' = "cons_done"
    /\ UNCHANGED <<proc, lists, idx, browser, frame, extracted, container,
                   cons, sink, hist>>

NextConsolidate == VisitDistrict \/ Concatenate \/ Clean \/ WriteOutput

SpecConsolidate == InitConsolidate /\ [][NextConsolidate]_vars

(* ============================ properties ============================== *)
BlockPcs == {"block_selected", "macro", "micro", "reset"}

\* C1: whatever a step of the block body does (an exception, a failed
\* selection, a failed extraction or save included), control stays in the
\* body of the same block or moves to the loop head with the position
\* advanced by one; the run is not aborted, the option lists and the outer
\* positions are untouched, and at the loop head every remaining block
\* option is selected next.
C1_Step ==
    /\ pc \in BlockPcs =>
          /\ pc' \in BlockPcs \cup {"block_loop"}
          /\ fatalAt' = "none"
          /\ UNCHANGED <<lists, yi, si, di>>
          /\ bi' = IF pc' = "block_loop" THEN bi + 1 ELSE bi
    /\ (pc = "block_loop" /\ bi <= Len(block_options)) =>
          /\ pc' = "block_selected"
          /\ bi' = bi
          /\ frame'.fn = "select_dropdown_option"
          /\ frame'.value = block_options[bi][1]
C1_BlockFailureContained == [][C1_Step]_vars

\* A block failed with an exception caught by the block's try, and a later
\* block of the same district is being processed.
C1_Witness ==
    /\ pc = "macro"
    /\ \E j \in blocksFailed : j < bi
    /\ fatalAt = "none"

\* C2: the run is never aborted by a failure that arises while entering a
\* state or a district whose selection succeeded (the readiness wait for
\* the dependent dropdown, or the listing of its options).
C2_EnterFailureContained ==
    fatalAt \notin {"wait_district", "wait_block", "list_districts", "list_blocks"}

\* C3: a run in which the session was set up and the years were enumerated
\* has entered the loop body of every enumerated year when it ends.
C3_AllYearsAttempted ==
    (pc = "done" /\ year_options # <<>>) =>
        yearsTried = 1..Len(year_options)

\* C4: a call of get_dropdown_options or select_dropdown_option whose
\* control is stale on every attempt stops retrying at a bound and returns
\* to its caller: it never ends by exhausting the stack of recursive calls.
C4_RetryReturns ==
    (Returned /\ frame.depth = RecursionLimit) => frame.exc # "RecursionError"

\* C5: when get_dropdown_options has read the control, its result is, in
\* the control's order, exactly the (value, stripped label) pairs of the
\* options whose value is neither "0" nor "select" and whose stripped label
\* is not "Select".
Kept(opts) ==
    {i \in DOMAIN opts :
        /\ opts[i].value # "0" /\ opts[i].value # "select"
        /\ strip(opts[i].text) # <<"S","e","l","e","c","t">>}
Nth(S, k) == CHOOSE i \in S : Cardinality({j \in S : j <= i}) = k
IsFilteredListing(res, opts) ==
    /\ Len(res) = Cardinality(Kept(opts))
    /\ \A k \in DOMAIN res :
          res[k] = << opts[Nth(Kept(opts), k)].value,
                      strip(opts[Nth(Kept(opts), k)].text) >>
C5_ListingIsFiltered ==
    (frame.fn = "get_dropdown_options" /\ Returned /\ frame.how = "ok") =>
        IsFilteredListing(frame.opts, browser.options[frame.element_id])

\* The state control holds a placeholder by value and one by label, and the
\* listing returned the one real option.
C5_Witness ==
    /\ frame.fn = "get_dropdown_options" /\ Returned /\ frame.how = "ok"
    /\ frame.element_id = "ddlState"
    /\ Len(browser.options["ddlState"]) = 3
    /\ frame.opts = << <<"30", <<"G","A">> >> >>

\* C6: during and after a call of select_dropdown_option with a value the
\* control does not hold, the page is as it was when the call was made
\* (selection and option set of every level), and the call never returns
\* True: when it returns, it returns False.
InvalidSelect ==
    /\ frame.fn = "select_dropdown_option"
    /\ frame.value \notin OptionValues(frame.before.options[frame.element_id])
C6_InvalidSelectChangesNothing ==
    InvalidSelect =>
        /\ browser = frame.before
        /\ frame.commits = 0
        /\ (Returned /\ frame.exc = "none") => ~frame.ok

\* A state is selected and its districts are loaded; selecting a value the
\* state control does not hold has returned False.
C6_Witness ==
    /\ InvalidSelect /\ Returned /\ frame.how = "NoSuchElement" /\ ~frame.ok
    /\ frame.element_id = "ddlState"
    /\ browser.selected["ddlState"] = "29"
    /\ Len(browser.options["ddlDistrict"]) = 3

\* C7: every call of save_data is made from the macro or the micro step with
\* a table of at least one row taken from that step's grid, with the labels
\* of the year, state, district and block the loops are at and the kind of
\* the step; and the store changes only in a step that makes such a call,
\* and only at the path of that call.
KindOf(p) == IF p = "macro" THEN MacroKind ELSE MicroKind
GridOf(p) == IF p = "macro" THEN "gridMacroNutrient" ELSE "gridMicroNutrient"
C7_Step ==
    /\ saveCalls' # saveCalls =>
          /\ pc \in {"macro", "micro"}
          /\ Len(saveCalls') = Len(saveCalls) + 1
          /\ SubSeq(saveCalls', 1, Len(saveCalls)) = saveCalls
          /\ LET call == saveCalls'[Len(saveCalls')]
             IN  /\ call.rows >= 1
                 /\ call.grid = GridOf(pc)
                 /\ call.kind = KindOf(pc)
                 /\ call.year = year_options[yi][2]
                 /\ call.state = state_options[si][2]
                 /\ call.district = district_options[di][2]
                 /\ call.block = block_options[bi][2]
    /\ store' # store =>
          /\ saveCalls' # saveCalls
          /\ LET call == saveCalls'[Len(saveCalls')]
                 p    == FilePath(call.year, call.state, call.district,
                                  call.block, call.kind)
             IN  /\ DOMAIN store' = DOMAIN store \cup {p}
                 /\ \A q \in DOMAIN store : q # p => store'[q] = store[q]
                 /\ store'[p].rows = call.rows
C7_SaveOnlyPopulated == [][C7_Step]_vars

\* The macro table of a block was saved and its micro extraction gave no
\* populated table, so that nothing was saved for it.
C7_Witness ==
    /\ pc = "reset"
    /\ Len(blockLog) = 3
    /\ blockLog[2].reached = "save" /\ blockLog[2].exc = "none"
    /\ blockLog[3].reached = "extract"
    /\ Len(saveCalls) = 1 /\ saveCalls[1].kind = MacroKind
    /\ Cardinality(DOMAIN store) = 1

\* C8: after a successful block selection the macro step is taken, and
\* after the macro step, whatever its outcome, the micro step of the same
\* block is taken.
C8_Step ==
    /\ (pc = "block_selected" /\ pc' # pc /\ frame.exc = "none" /\ frame.ok) =>
          pc' = "macro" /\ bi' = bi
    /\ pc = "macro" =>
          /\ pc' = "micro" /\ bi' = bi
          /\ blockLog'[Len(blockLog')].step = "macro"
    /\ pc = "micro" =>
          /\ blockLog[Len(blockLog)].step = "macro"
          /\ blockLog'[Len(blockLog')].step = "micro"
C8_MacroThenMicro == [][C8_Step]_vars

\* The macro step of a block failed and its micro step was taken.
C8_Witness ==
    /\ pc = "reset"
    /\ Len(blockLog) = 3
    /\ blockLog[2].step = "macro" /\ blockLog[2].exc = "OSError"
    /\ blockLog[3].step = "micro" /\ blockLog[3].reached = "save"

\* C9: get_table_data returns None when the container does not become
\* visible, a table with zero rows (not None) when the container is visible
\* and holds no data row, and None with an error logged when the visible
\* container cannot be parsed.
C9_AbsentVersusEmpty ==
    /\ container.state = "hidden" => extracted.df.kind = "None"
    /\ container.state = "table" =>
          /\ extracted.df.kind = "DataFrame"
          /\ extracted.df.rows = container.rows
    /\ container.state = "unparseable" =>
          /\ extracted.df.kind = "None"
          /\ extracted.log = "error"

\* A visible container without data rows gave an empty table.
C9_Witness ==
    /\ container.state = "table" /\ container.rows = 0
    /\ extracted.df.kind = "DataFrame" /\ extracted.df.rows = 0

\* C10: within one run no file of the store is written more than once.
C10_WrittenOnce ==
    \A p \in DOMAIN store : store[p].writes <= 1


\* C19: no exception leaves scrape_soil_data other than the SystemExit of a
\* failed set-up, which happens before any session exists; an exception
\* raised at any later step reaches the outermost handler, is logged as
\* critical, and the call goes through its finally clause and returns
\* normally with the exit status untouched.
C19_OnlySetupRaises ==
    /\ raised # "none" =>
          (raised = "SystemExit" /\ pc = "exited" /\ fatalAt = "none" /\ driver = "none")
    /\ fatalAt # "none" =>
          (pc \in {"finally", "done"} /\ raised = "none" /\ exitStatus = 0)
    /\ (fatalAt # "none" /\ pc = "finally") => log = "critical"
    /\ pc = "done" => (raised = "none" /\ driver = "closed")

\* An exception of a step outside the block body was caught and the call
\* returned.
C19_Witness ==
    pc = "done" /\ fatalAt = "wait_district" /\ raised = "none" /\ exitStatus = 0

\* C20: a session that cannot be established and an empty year enumeration
\* both end the process with a non-zero exit status, with no state,
\* district or block selected afterwards; any other error leaves the exit
\* status at zero.
C20_FatalSetupExitsNonZero ==
    /\ pc = "exited" => (exitStatus # 0 /\ yearsTried = {})
    /\ (pc = "done" /\ year_options = <<>> /\ fatalAt = "none") =>
          (exitStatus # 0 /\ yearsTried = {})
    /\ (pc = "done" /\ (year_options # <<>> \/ fatalAt # "none")) => exitStatus = 0

BlockOfFile(p) == <<store[p].from[3], store[p].from[4]>>
FilesOf(fr) == {fr.macro_file, fr.micro_file} \ {NoFile}
HasData(p) == csv[p].readable /\ ~empty(csv[p].table)

\* C11: once every district directory has been visited, each block for
\* which the crawler saved a non-empty macro or micro file has a frame in
\* all_data_frames read from a file of that block, also when the files of
\* several blocks lie in one district directory.
C11_EveryBlockProcessed ==
    (pc = "walk" /\ todo = {}) =>
        \A p \in DOMAIN store :
            HasData(p) =>
                \E i \in DOMAIN all_data_frames :
                    \E q \in FilesOf(all_data_frames[i]) \cap DOMAIN store :
                        BlockOfFile(q) = BlockOfFile(p)

Cell(df, r, name) == df.rows[r][Position(df.columns, name)]
OneBlock(fr) ==
    /\ FilesOf(fr) \subseteq DOMAIN store
    /\ \A p, q \in FilesOf(fr) : BlockOfFile(p) = BlockOfFile(q)

\* C12: in every frame read from the files of one block, the State, District
\* and Block cells of every row are the labels the crawler passed to
\* save_data for those files, not their path-safe or otherwise altered form.
C12_IdentifiersAreOriginalLabels ==
    \A i \in DOMAIN all_data_frames :
        LET fr == all_data_frames[i]
        IN  OneBlock(fr) =>
                \A p \in FilesOf(fr) : \A r \in DOMAIN fr.df.rows :
                    /\ Cell(fr.df, r, YearColumn) = store[p].from[1]
                    /\ Cell(fr.df, r, StateColumn) = store[p].from[2]
                    /\ Cell(fr.df, r, DistrictColumn) = store[p].from[3]
                    /\ Cell(fr.df, r, BlockColumn) = store[p].from[4]

MacroTable(fr) == csv[fr.macro_file].table
MicroTable(fr) == csv[fr.micro_file].table
BothLoaded(fr) ==
    /\ fr.macro_file # NoFile /\ HasData(fr.macro_file)
    /\ fr.micro_file # NoFile /\ HasData(fr.micro_file)
KeyCell(df, r) == df.rows[r][FirstKeyColumn(df)]
KeysOf(df) == {KeyCell(df, r) : r \in DOMAIN df.rows}
UniqueKeys(df) == \A r, q \in DOMAIN df.rows : r # q => KeyCell(df, r) # KeyCell(df, q)
KeyedBoth(fr) ==
    /\ BothLoaded(fr)
    /\ KeyColumns(MacroTable(fr)) # {} /\ KeyColumns(MicroTable(fr)) # {}
    /\ UniqueKeys(MacroTable(fr)) /\ UniqueKeys(MicroTable(fr))

\* The merged table of the frame is the outer join of its two tables on
\* their key columns: one row per key of the union; the macro cells of the
\* row are the macro row of that key (missing but for the key when there is
\* none), the micro cells the micro row of that key without its key cell
\* (missing when there is none).
IsOuterJoin(fr) ==
    LET L == MacroTable(fr)
        R == MicroTable(fr)
        kl == FirstKeyColumn(L)
        kr == FirstKeyColumn(R)
        m == fr.merged
        nl == Len(L.columns)
        keys == KeysOf(L) \cup KeysOf(R)
    IN  /\ m.columns[kl] = MergeKey
        /\ Len(m.columns) = nl + Len(R.columns) - 1
        /\ Len(m.rows) = Cardinality(keys)
        /\ {m.rows[r][kl] : r \in DOMAIN m.rows} = keys
        /\ \A r \in DOMAIN m.rows :
              LET k == m.rows[r][kl]
                  left == SubSeq(m.rows[r], 1, nl)
                  right == SubSeq(m.rows[r], nl + 1, Len(m.columns))
              IN  /\ IF k \in KeysOf(L)
                     THEN \E i \in DOMAIN L.rows : L.rows[i] = left
                     ELSE \A c \in DOMAIN left : c # kl => left[c] = NaN
                  /\ IF k \in KeysOf(R)
                     THEN \E j \in DOMAIN R.rows :
                             R.rows[j][kr] = k /\ Without(R.rows[j], kr) = right
                     ELSE \A c \in DOMAIN right : right[c] = NaN

\* The key columns of the two tables hold values of different types (one
\* numbers, the other text), which pd.merge refuses to join.
KeyTypesDiffer(fr) ==
    dtype(MacroTable(fr), FirstKeyColumn(MacroTable(fr)))
        # dtype(MicroTable(fr), FirstKeyColumn(MicroTable(fr)))

\* C13 as stated: whenever both tables of a block are non-empty, each has a
\* column named after village or gram, and the keys are unique inside each
\* table, the merged table is the outer join on that column.
C13_Original ==
    \A i \in DOMAIN all_data_frames :
        KeyedBoth(all_data_frames[i]) =>
            (all_data_frames[i].how = "join" /\ IsOuterJoin(all_data_frames[i]))

\* C13: under the same conditions the merged table is the outer join on
\* the key column (one row per key of the union, the columns of the table
\* that lacks the key missing), unless the two key columns differ in type;
\* then pd.merge raises and the two tables, their key columns renamed, are
\* put side by side row by row.
C13_OuterJoinUnlessRefused ==
    \A i \in DOMAIN all_data_frames :
        LET fr == all_data_frames[i]
        IN  KeyedBoth(fr) =>
                IF KeyTypesDiffer(fr)
                THEN /\ fr.how = "join_failed"
                     /\ Len(fr.merged.rows) =
                            Max(Len(MacroTable(fr).rows), Len(MicroTable(fr).rows))
                     /\ Cardinality(Positions(fr.merged.columns, MergeKey)) = 2
                ELSE fr.how = "join" /\ IsOuterJoin(fr)

\* A join was made where one key is in the macro table only and another in
\* the micro table only.
C13_Witness ==
    \E i \in DOMAIN all_data_frames :
        LET fr == all_data_frames[i]
        IN  /\ KeyedBoth(fr) /\ fr.how = "join"
            /\ KeysOf(MacroTable(fr)) \ KeysOf(MicroTable(fr)) # {}
            /\ KeysOf(MicroTable(fr)) \ KeysOf(MacroTable(fr)) # {}

NoCommonKey(fr) ==
    /\ BothLoaded(fr)
    /\ (KeyColumns(MacroTable(fr)) = {} \/ KeyColumns(MicroTable(fr)) = {})

\* C14: when both tables of a block are non-empty and a key column is not
\* found in both, the merged table puts them side by side by position and
\* drops no row: it has the columns of the macro table followed by those of
\* the micro table, as many rows as the longer table, and its row i holds
\* row i of the macro table and row i of the micro table, the cells of a
\* table that has no row i being missing.
C14_SideBySideKeepsRows ==
    \A i \in DOMAIN all_data_frames :
        LET fr == all_data_frames[i]
            L == MacroTable(fr)
            R == MicroTable(fr)
            m == fr.merged
            nl == Len(L.columns)
        IN  NoCommonKey(fr) =>
                /\ fr.how = "side_by_side"
                /\ m.columns = L.columns \o R.columns
                /\ Len(m.rows) = Max(Len(L.rows), Len(R.rows))
                /\ \A r \in DOMAIN m.rows :
                      /\ SubSeq(m.rows[r], 1, nl) =
                            IF r <= Len(L.rows) THEN L.rows[r] ELSE NaNs(nl)
                      /\ SubSeq(m.rows[r], nl + 1, Len(m.columns)) =
                            IF r <= Len(R.rows) THEN R.rows[r] ELSE NaNs(Len(R.columns))

\* Two tables of different lengths were put side by side.
C14_Witness ==
    \E i \in DOMAIN all_data_frames :
        /\ NoCommonKey(all_data_frames[i])
        /\ all_data_frames[i].how = "side_by_side"
        /\ Len(MacroTable(all_data_frames[i]).rows)
              # Len(MicroTable(all_data_frames[i]).rows)

NoDataFiles(district_path) ==
    \A f \in tree[district_path] : ~endswith(f, MacroSuffix) /\ ~endswith(f, MicroSuffix)

\* C15: visiting a district directory that holds no file ending in
\* _macro.csv and none ending in _micro.csv appends nothing to
\* all_data_frames and raises nothing, and the walk goes on: the other
\* directories not yet visited remain to be visited.
C15_Step ==
    (pc = "walk" /\ todo' # todo) =>
        \A d \in todo \ todo' :
            NoDataFiles(d) =>
                /\ all_data_frames' = all_data_frames
                /\ consExc' = "none"
                /\ pc' = "walk"
                /\ todo' = todo \ {d}
C15_EmptyDistrictSkipped == [][C15_Step]_vars

\* A directory holding only a file that is not a nutrient table has been
\* visited, and so has a directory that gave a frame.
C15_Witness ==
    /\ pc = "walk" /\ todo = {}
    /\ \E d \in DOMAIN tree : NoDataFiles(d) /\ tree[d] # {}
    /\ all_data_frames # <<>>

Damaged(p) == p # NoFile /\ ~csv[p].readable
Loads(p) == p # NoFile /\ HasData(p)
PathsIn(d) == {Append(d, f) : f \in tree[d]}

\* C16: a file that pd.read_csv cannot load counts as absent.  Visiting a
\* district raises nothing and leaves the walk running; a frame made from a
\* macro file that failed to load and a micro file that loaded holds the
\* micro table unchanged, and the other way round; and a directory holding
\* just one such pair of files, one of each kind, does give a frame.
C16_Step ==
    (pc = "walk" /\ todo' # todo) =>
        /\ pc' = "walk" /\ consExc' = "none"
        /\ \A i \in (Len(all_data_frames) + 1)..Len(all_data_frames') :
              LET fr == all_data_frames'[i]
              IN  /\ (Damaged(fr.macro_file) /\ Loads(fr.micro_file)) =>
                         (fr.how = "micro" /\ fr.merged = MicroTable(fr))
                  /\ (Damaged(fr.micro_file) /\ Loads(fr.macro_file)) =>
                         (fr.how = "macro" /\ fr.merged = MacroTable(fr))
        /\ \A d \in todo \ todo' :
              (/\ Cardinality(tree[d]) = 2
               /\ \E p, q \in PathsIn(d) :
                     /\ Damaged(p) /\ Loads(q)
                     /\ \/ endswith(p[5], MacroSuffix) /\ endswith(q[5], MicroSuffix)
                        \/ endswith(p[5], MicroSuffix) /\ endswith(q[5], MacroSuffix)) =>
                  Len(all_data_frames') = Len(all_data_frames) + 1
C16_LoadFailureIsAbsence == [][C16_Step]_vars

\* A frame was made from a macro file that failed to load and a micro file
\* that loaded, and the walk went on to another directory.
C16_Witness ==
    /\ pc = "walk" /\ todo = {}
    /\ Len(all_data_frames) = 2
    /\ Damaged(all_data_frames[1].macro_file)
    /\ Loads(all_data_frames[1].micro_file)
    /\ all_data_frames[1].how = "micro"

PairwiseDistinct(names) ==
    \A i, j \in DOMAIN names : i # j => names[i] # names[j]

\* C17: a run that collected at least one frame gets through the
\* normalisation of the column names, and the names of the final table
\* are then pairwise distinct, also when two columns carried the same
\* name before (as after a side-by-side concatenation of two tables that
\* share a column name).
C17_DistinctNames ==
    (pc \in {"write", "cons_done"} /\ all_data_frames # <<>>) =>
        (consExc = "none" /\ PairwiseDistinct(final_df.columns))

\* C18: the cleaning step leaves no cell of the final table missing, and
\* in every column outside id_cols it leaves a number: the cell as it was
\* when it was a number, 0 when it was missing or text; the table written
\* is the table cleaned.
C18_Step ==
    /\ (pc = "clean" /\ pc' = "write") =>
          /\ Len(final_df'.rows) = Len(final_df.rows)
          /\ \A r \in DOMAIN final_df'.rows : \A c \in DOMAIN final_df'.columns :
                /\ final_df'.rows[r][c] # NaN
                /\ final_df'.columns[c] \notin id_cols =>
                      /\ IsNumber(final_df'.rows[r][c])
                      /\ final_df'.rows[r][c] =
                            IF IsNumber(final_df.rows[r][c])
                            THEN final_df.rows[r][c] ELSE Zero
    /\ pc = "write" => final_df' = final_df
C18_NumericOutsideIdentifiers == [][C18_Step]_vars

\* An output was written in which a cell outside id_cols was set to 0.
C18_Witness ==
    /\ pc = "cons_done" /\ log = "saved"
    /\ \E r \in DOMAIN final_df.rows : \E c \in DOMAIN final_df.columns :
          final_df.columns[c] \notin id_cols /\ final_df.rows[r][c] = Zero

\* C21: when the click on the micro tab fails, the failure is recorded and
\* the micro part goes on without the tab switch: the micro "Table View"
\* click and the extraction of that block are still attempted (the micro
\* step gets past the tab), and the run is not aborted.
C21_MicroTabFailureNotFatal ==
    /\ \A i \in DOMAIN blockLog :
          blockLog[i].step = "micro" => blockLog[i].reached # "tab"
    /\ fatalAt # "micro"

EmptyListed(at) == pc = at /\ Returned /\ frame.exc = "none" /\ frame.opts = <<>>

\* C22: when the listing of the states, districts or blocks comes back
\* empty, no option of that level is selected, nothing is extracted or
\* saved, the page is left as it is, and control is at the loop head of the
\* parent level with the parent's position advanced by one; an empty
\* listing of the years is the only one that ends the run.
C22_Step ==
    /\ EmptyListed("states_listed") =>
          (pc' = "year_loop" /\ yi' = yi + 1 /\ UNCHANGED <<si, di, bi>>)
    /\ EmptyListed("districts_listed") =>
          (pc' = "state_loop" /\ si' = si + 1 /\ UNCHANGED <<yi, di, bi>>)
    /\ EmptyListed("blocks_listed") =>
          (pc' = "district_loop" /\ di' = di + 1 /\ UNCHANGED <<yi, si, bi>>)
    /\ EmptyListed("years_listed") => pc' = "finally"
    /\ (\/ EmptyListed("states_listed") \/ EmptyListed("districts_listed")
        \/ EmptyListed("blocks_listed") \/ EmptyListed("years_listed")) =>
          /\ frame'.fn = "none"
          /\ UNCHANGED <<browser, sink, lists, fatalAt>>
C22_EmptyListingBacksOut == [][C22_Step]_vars

\* The blocks of the second district were listed and there were none; the
\* district loop is at its head again, past that district, with the files
\* of the first district saved.
C22_Witness ==
    /\ pc = "district_loop" /\ di = 3 /\ log = "warning"
    /\ browser.selected["ddlDistrict"] = "2"
    /\ store # <<>>

SelectFailed(at) == pc = at /\ Returned /\ frame.exc = "none" /\ ~frame.ok

SelectsNext(at, id, options, i) ==
    /\ pc' = at
    /\ frame' = Call("select_dropdown_option", id, options[i][1])

\* C23: when the selection of an option at a level returns False, nothing
\* is listed, selected, extracted or saved below that option: control is at
\* the loop head of the same level, one position further, and the step of
\* a loop head is the selection of the option at its position, or the
\* return to the parent level when the options are exhausted.
C23_Step ==
    /\ SelectFailed("year_selected") =>
          (pc' = "year_loop" /\ yi' = yi + 1 /\ UNCHANGED <<si, di, bi>>)
    /\ SelectFailed("state_selected") =>
          (pc' = "state_loop" /\ si' = si + 1 /\ UNCHANGED <<yi, di, bi>>)
    /\ SelectFailed("district_selected") =>
          (pc' = "district_loop" /\ di' = di + 1 /\ UNCHANGED <<yi, si, bi>>)
    /\ SelectFailed("block_selected") =>
          (pc' = "block_loop" /\ bi' = bi + 1 /\ UNCHANGED <<yi, si, di>>)
    /\ (\/ SelectFailed("year_selected") \/ SelectFailed("state_selected")
        \/ SelectFailed("district_selected") \/ SelectFailed("block_selected")) =>
          /\ frame'.fn = "none"
          /\ UNCHANGED <<browser, sink, lists, dfs, fatalAt>>
    /\ pc = "year_loop" =>
          IF yi <= Len(year_options)
          THEN SelectsNext("year_selected", "ddlYear", year_options, yi)
          ELSE pc' = "finally"
    /\ pc = "state_loop" =>
          IF si <= Len(state_options)
          THEN SelectsNext("state_selected", "ddlState", state_options, si)
          ELSE pc' = "year_loop"
    /\ pc = "district_loop" =>
          IF di <= Len(district_options)
          THEN SelectsNext("district_selected", "ddlDistrict", district_options, di)
          ELSE pc' = "state_loop"
    /\ pc = "block_loop" =>
          IF bi <= Len(block_options)
          THEN SelectsNext("block_selected", "ddlBlock", block_options, bi)
          ELSE pc' = "district_loop"
C23_FailedSelectionSkipsOption == [][C23_Step]_vars

\* The selection of the first district returned False, and the selection
\* of the second district is under way with nothing saved.
C23_Witness ==
    /\ pc = "district_selected" /\ di = 2
    /\ frame.fn = "select_dropdown_option" /\ frame.element_id = "ddlDistrict"
    /\ browser.selected["ddlDistrict"] = "0"
    /\ store = <<>>

ListsChildren(at) ==
    pc = at /\ frame.fn = "get_dropdown_options" /\ frame.phase = "run"

ViewsTable == pc \in {"macro", "micro"}

SelectionSucceeded ==
    /\ pc \in {"year_selected", "state_selected", "district_selected",
               "block_selected"}
    /\ Returned /\ frame.exc = "none" /\ frame.ok

ReadsAfterSettle ==
    /\ ListsChildren("states_listed") => "sleep" \in browser.waits
    /\ ListsChildren("districts_listed") => {"ready", "sleep"} \subseteq browser.waits
    /\ ListsChildren("blocks_listed") => {"ready", "sleep"} \subseteq browser.waits
    /\ ViewsTable => "sleep" \in browser.waits

\* C24 as stated: every read of a dependent control happens after the wait
\* that follows the selection, and a selection that has reported success
\* has taken its settle interval already.
C24_Original ==
    /\ ReadsAfterSettle
    /\ SelectionSucceeded => "sleep" \in browser.waits

\* C24: no read directly follows a selection: when the options of the child
\* level are listed, or the table of a block is viewed, the settle interval
\* that follows the last commit has been taken (after a state and after a
\* district it is preceded by the readiness wait for the dependent
\* control); the selection itself reports success right after the commit,
\* and the settle interval is taken by the traversal afterwards.
C24_SettleBeforeRead ==
    /\ ReadsAfterSettle
    /\ SelectionSucceeded => browser.waits = {}

\* The blocks of a selected district are about to be listed, after the
\* readiness wait and the settle interval.
C24_Witness ==
    /\ ListsChildren("blocks_listed")
    /\ browser.selected["ddlDistrict"] # "0"
    /\ browser.waits = {"ready", "sleep"}

StepsOf(entries) == [i \in DOMAIN entries |-> entries[i].step]

BlockWasSelected ==
    blockLog # <<>> /\ blockLog[1] = Entry("select_block", "select", "none")

\* C25: a block whose selection succeeded goes through the macro step, the
\* micro step and the click on the macro tab, in this order and whatever
\* the outcome of each, before the loop is at its head for the next block;
\* whatever the click on the macro tab gives, the next step is the head of
\* the block loop, one block further, and the run is not aborted.
C25_Step ==
    /\ (pc = "block_loop" /\ BlockWasSelected) =>
          StepsOf(blockLog) = <<"select_block", "macro", "micro", "reset">>
    /\ (pc = "micro" /\ BlockWasSelected) => pc' = "reset"
    /\ pc = "reset" =>
          /\ pc' = "block_loop" /\ bi' = bi + 1
          /\ blockLog' # blockLog /\ blockLog'[Len(blockLog')].step = "reset"
          /\ UNCHANGED <<fatalAt, raised, exitStatus, block_options>>
C25_MacroTabResetAlways == [][C25_Step]_vars

\* The macro step, the micro step and the click on the macro tab all failed
\* for the first block, and the loop is at its head with the second block
\* still to come.
C25_Witness ==
    /\ pc = "block_loop" /\ bi = 2 /\ bi <= Len(block_options)
    /\ BlockWasSelected /\ Len(blockLog) = 4
    /\ \A i \in 2..4 : blockLog[i].exc # "none"

\* Lexicographic order of loop positions <<year, state, district, block>>.
Before(a, b) ==
    \E k \in 1..4 : a[k] < b[k] /\ \A j \in 1..(k - 1) : a[j] = b[j]

SelectIssued ==
    /\ pc \in {"year_loop", "state_loop", "district_loop", "block_loop"}
    /\ pc' \in {"year_selected", "state_selected", "district_selected",
                "block_selected"}

PositionOf(at) ==
    CASE at = "year_selected" -> <<yi, 0, 0, 0>>
      [] at = "state_selected" -> <<yi, si, 0, 0>>
      [] at = "district_selected" -> <<yi, si, di, 0>>
      [] at = "block_selected" -> <<yi, si, di, bi>>

SaveKey(c) == <<c.year, c.state, c.district, c.block, c.kind>>

SavedOnce ==
    \A i, j \in DOMAIN saveCalls :
        SaveKey(saveCalls[i]) = SaveKey(saveCalls[j]) => i = j

\* C26: the options are selected depth-first in listing order and none
\* twice: the position of every selection comes after the position of the
\* selection before it; the position of a level moves on by one, and only
\* when the option it stood on is done with (its selection failed, the
\* listing below it was empty, or the loop below it is exhausted), and it
\* starts at one when the level has been listed; no (year, state, district,
\* block, kind) is saved twice.
C26_Step ==
    /\ SelectIssued =>
          /\ lastSelected' = PositionOf(pc')
          /\ Before(lastSelected, lastSelected')
    /\ ~SelectIssued => UNCHANGED lastSelected
    /\ bi' # bi =>
          \/ bi' = bi + 1 /\ pc \in {"block_selected", "reset"}
          \/ bi' = 1 /\ pc = "blocks_listed"
    /\ di' # di =>
          \/ /\ di' = di + 1
             /\ \/ pc = "block_loop" /\ bi > Len(block_options)
                \/ pc \in {"blocks_listed", "district_selected"}
          \/ di' = 1 /\ pc = "districts_listed"
    /\ si' # si =>
          \/ /\ si' = si + 1
             /\ \/ pc = "district_loop" /\ di > Len(district_options)
                \/ pc \in {"districts_listed", "state_selected"}
          \/ si' = 1 /\ pc = "states_listed"
    /\ yi' # yi =>
          \/ /\ yi' = yi + 1
             /\ \/ pc = "state_loop" /\ si > Len(state_options)
                \/ pc \in {"states_listed", "year_selected"}
          \/ yi' = 1 /\ pc = "years_listed"
    /\ SavedOnce /\ SavedOnce'
C26_DepthFirstNothingTwice == [][C26_Step]_vars

\* The second district is being selected after both blocks of the first
\* district have been processed and saved.
C26_Witness ==
    /\ pc = "district_selected" /\ lastSelected = <<1, 1, 2, 0>>
    /\ Len(saveCalls) = 4

KeyInBoth(fr) ==
    KeyColumns(MacroTable(fr)) # {} /\ KeyColumns(MicroTable(fr)) # {}

\* The shape of a join on the common key: the key column once, under the
\* common name, and every other column of the two tables.
JoinedOnKey(fr) ==
    /\ fr.how = "join"
    /\ Cardinality(Positions(fr.merged.columns, MergeKey)) = 1
    /\ Len(fr.merged.columns) =
          Len(MacroTable(fr).columns) + Len(MicroTable(fr).columns) - 1

\* The shape of two tables put side by side: all columns of both, as many
\* rows as the longer one.
PutSideBySide(fr) ==
    /\ Len(fr.merged.columns) =
          Len(MacroTable(fr).columns) + Len(MicroTable(fr).columns)
    /\ Len(fr.merged.rows) =
          Max(Len(MacroTable(fr).rows), Len(MicroTable(fr).rows))

NewFrames == {all_data_frames'[i] :
                 i \in (Len(all_data_frames) + 1)..Len(all_data_frames')}

\* What holds of the strategy whether or not a join can be refused: no key
\* in both gives the side-by-side table, one table alone is kept as it is,
\* and a directory whose files give no non-empty table gives no frame.
StrategyWithoutJoin ==
    /\ \A fr \in NewFrames :
          /\ Loads(fr.macro_file) \/ Loads(fr.micro_file)
          /\ ~empty(fr.merged)
          /\ (BothLoaded(fr) /\ ~KeyInBoth(fr)) =>
                (fr.how = "side_by_side" /\ PutSideBySide(fr)
                 /\ fr.merged.columns = MacroTable(fr).columns \o MicroTable(fr).columns)
          /\ (Loads(fr.macro_file) /\ ~Loads(fr.micro_file)) =>
                (fr.how = "macro" /\ fr.merged = MacroTable(fr))
          /\ (Loads(fr.micro_file) /\ ~Loads(fr.macro_file)) =>
                (fr.how = "micro" /\ fr.merged = MicroTable(fr))
    /\ \A d \in todo \ todo' :
          (\A p \in PathsIn(d) : ~HasData(p)) => all_data_frames' = all_data_frames

\* C27 as stated: two non-empty tables with a key column in both are always
\* joined on the key.
C27_OriginalStep ==
    (pc = "walk" /\ todo' # todo) =>
        /\ StrategyWithoutJoin
        /\ \A fr \in NewFrames :
              (BothLoaded(fr) /\ KeyInBoth(fr)) => JoinedOnKey(fr)
C27_Original == [][C27_OriginalStep]_vars

\* C27: the strategy is fixed by which of the two tables loaded for the
\* directory are non-empty and where a key column is found.  Both non-empty
\* with a key column in both: the outer join on the key, unless pd.merge
\* refuses it (key columns of different types), and then the two tables,
\* key columns renamed, side by side.  Both non-empty with a key column in
\* one or in neither: side by side.  One non-empty: that table unchanged.
\* Neither: no frame.
C27_Step ==
    (pc = "walk" /\ todo' # todo) =>
        /\ StrategyWithoutJoin
        /\ \A fr \in NewFrames :
              (BothLoaded(fr) /\ KeyInBoth(fr)) =>
                  IF KeyTypesDiffer(fr)
                  THEN /\ fr.how = "join_failed" /\ PutSideBySide(fr)
                       /\ Cardinality(Positions(fr.merged.columns, MergeKey)) = 2
                  ELSE JoinedOnKey(fr)
C27_MergeStrategyPriority == [][C27_Step]_vars

\* The walk is over with a frame made by a join and a frame made of a
\* macro table alone.
C27_Witness ==
    /\ \E i \in DOMAIN all_data_frames : all_data_frames[i].how = "join"
    /\ \E i \in DOMAIN all_data_frames : all_data_frames[i].how = "macro"
    /\ pc = "walk" /\ todo = {}

\* The labels, as listed, of the options of a control that carry the value
\* selected in it.
SelectedLabels(id) ==
    {strip(browser.options[id][i].text) :
        i \in {j \in DOMAIN browser.options[id] :
                  browser.options[id][j].value = browser.selected[id]}}

\* C28: at every call of save_data the option selected in each of the four
\* controls is the option the loop of that level stands on, and its label
\* is the year, state, district and block passed to save_data; the table
\* passed comes from the container of the kind passed, read in the step of
\* that kind, and this step follows the successful selection of the block
\* with no selection in between.
C28_Step ==
    saveCalls' # saveCalls =>
        LET c == saveCalls'[Len(saveCalls')]
        IN  /\ saveCalls' = Append(saveCalls, c)
            /\ SelectedLabels("ddlYear") = {c.year}
            /\ SelectedLabels("ddlState") = {c.state}
            /\ SelectedLabels("ddlDistrict") = {c.district}
            /\ SelectedLabels("ddlBlock") = {c.block}
            /\ browser.selected["ddlYear"] = year_options[yi][1]
            /\ browser.selected["ddlState"] = state_options[si][1]
            /\ browser.selected["ddlDistrict"] = district_options[di][1]
            /\ browser.selected["ddlBlock"] = block_options[bi][1]
            /\ pc \in {"macro", "micro"}
            /\ c.kind = KindOf(pc)
            /\ c.grid = GridOf(pc)
            /\ BlockWasSelected
            /\ lastSelected = <<yi, si, di, bi>>
            /\ UNCHANGED browser
C28_SavedUnderSelectedPath == [][C28_Step]_vars

\* The micro table of the second block of the listing has been saved, after
\* three other tables.
C28_Witness ==
    /\ Len(saveCalls) = 4
    /\ saveCalls[4].kind = MicroKind
    /\ saveCalls[4].block = <<"A", " ", "B">>
    /\ browser.selected["ddlBlock"] = "12"

\* The block a file of the raw store belongs to, as its name tells it.
StemOf(p) ==
    IF endswith(p[5], MacroSuffix) THEN replace(p[5], MacroSuffix, <<>>)
    ELSE replace(p[5], MicroSuffix, <<>>)

\* C29: in every frame made from a macro file and a micro file, the two
\* files are files of the same block, and the Block cell of every row names
\* that block, whatever the directory holds and however it is listed.
C29_MergedTablesOfOneBlock ==
    \A i \in DOMAIN all_data_frames :
        LET fr == all_data_frames[i]
        IN  (fr.macro_file # NoFile /\ fr.micro_file # NoFile) =>
                /\ StemOf(fr.macro_file) = StemOf(fr.micro_file)
                /\ \A r \in DOMAIN fr.df.rows :
                      /\ Safe(Cell(fr.df, r, BlockColumn)) = StemOf(fr.macro_file)
                      /\ Safe(Cell(fr.df, r, BlockColumn)) = StemOf(fr.micro_file)

\* The results of the call in progress had it met no staleness: one attempt
\* on the page as it was when the call was made.
Unretried ==
    {select_dropdown_option(
         [frame EXCEPT !.phase = "run", !.depth = 0, !.commits = 0,
                       !.how = "none", !.exc = "none", !.ok = FALSE],
         frame.before, o).frame :
        o \in SelectOutcomes \ {"StaleBefore", "StaleAfter"}}

\* C30: a call of select_dropdown_option commits its value at most once,
\* retries after a staleness included, and a call that has returned after
\* some retries has returned what a call that met no staleness returns:
\* the same truth value or the same exception, the value selected in the
\* control when it is True.
C30_CommitOnceSameResult ==
    frame.fn = "select_dropdown_option" =>
        /\ frame.commits <= 1
        /\ Returned =>
              /\ \E r \in Unretried : r.ok = frame.ok /\ r.exc = frame.exc
              /\ frame.ok => browser.selected[frame.element_id] = frame.value

\* C31: the session changes state twice at most: it is opened by the set-up
\* and closed by the finally clause, once, in the step by which
\* scrape_soil_data returns.  The function returns in no other step, so it
\* has closed the session whenever it returns, however the finally clause
\* was reached (loops exhausted, no year listed, or an exception caught by
\* the outermost handler); a run whose set-up failed has no session.  Once
\* the session is closed nothing is selected, clicked, extracted or saved:
\* no further step is taken.
C31_Step ==
    /\ driver' # driver =>
          \/ driver = "none" /\ driver' = "open" /\ pc = "start"
          \/ driver = "open" /\ driver' = "closed" /\ pc = "finally"
    /\ pc = "finally" => (driver = "open" /\ driver' = "closed" /\ pc' = "done")
    /\ pc' = "done" => (pc = "finally" /\ driver' = "closed")
    /\ pc' = "exited" => (pc = "start" /\ driver' = "none")
    /\ driver = "closed" => UNCHANGED vars
    /\ (pc = "done" /\ pc' = "done") => UNCHANGED vars
C31_SessionClosedOnce == [][C31_Step]_vars

\* The run was aborted by an exception after tables had been saved, and has
\* returned with the session closed.
C31_Witness ==
    /\ pc = "done" /\ driver = "closed"
    /\ fatalAt # "none" /\ store # <<>>
====
